---- MODULE Spec2Model ----
(***************************************************************************)
(* Loan ledger of thestatisticia/loanledger: the zustand loan store        *)
(* (useLoanStore.js), the derived status / risk score (loanHelpers.js,     *)
(* calculations.js), alert generation, and the two spreadsheet imports     *)
(* (fileImport.js = unnamed/part_002, bulkUpdate.js = calculations.js      *)
(* lines 265-527) with their localStorage records.                         *)
(*                                                                         *)
(* Time.  An instant is a number of half-days since 2023-01-01T00:00Z, a   *)
(* calendar date 'YYYY-MM-DD' is its day number since 2023-01-01 and       *)
(* denotes the instant 2 * day (midnight; the process time zone is UTC, so *)
(* parseISO and new Date agree).  Odd instants are noon, which is what     *)
(* separates differenceInDays (truncation) from Math.ceil.                 *)
(***************************************************************************)
EXTENDS Integers, Sequences, FiniteSets, TLC

VARIABLES
    loans,          \* store state.loans
    filters,        \* store state.filters
    selectedLoanId, \* store state.selectedLoanId
    alerts,         \* store state.alerts
    currentUserId,  \* store state.currentUserId
    localStorage,   \* window.localStorage: key -> <<persisted state>>, or <<>> for no item
    now,            \* the wall clock (half-days)
    lastOp,         \* the operation that produced this state, with its arguments and return value
    hist,           \* history: [scanAt, appended], what the last operations were about
    timeZone,       \* the environment's time zone: "UTC" (or east of it), "west"
    pending         \* the import calls suspended at their asynchronous file read

vars == <<loans, filters, selectedLoanId, alerts, currentUserId, localStorage, now, lastOp, hist,
          timeZone, pending>>

NULL == "null"
\* '' (an empty cell, a missing optional field)
Empty == ""
\* null or '' where a date or a number is expected
NoDate == -1
\* A value that is no string where a string is expected (a number in a JSON
\* document): optional chaining lets it through and toLowerCase() throws
NotAString == "<number>"

---------------------------------------------------------------------------
(* Bounds of the model *)

MaxLoans == 2        \* loans held by the store / a localStorage record
MaxTerm == 3         \* longest term (months) of a loan entered or imported
MaxComms == 2        \* communications logged on one loan
MaxAdvance == 2      \* half-days the clock may advance past NowStart

---------------------------------------------------------------------------
(* Sequence helpers (Array.prototype.filter / map / find / findIndex) *)

RECURSIVE SelectSeqIdx(_, _, _)
SelectSeqIdx(s, Test(_), i) ==
    IF i > Len(s) THEN <<>>
    ELSE (IF Test(s[i]) THEN <<s[i]>> ELSE <<>>) \o SelectSeqIdx(s, Test, i + 1)

Filter(s, Test(_)) == SelectSeqIdx(s, Test, 1)

Count(s, Test(_)) == Cardinality({i \in 1..Len(s) : Test(s[i])})

Min(a, b) == IF a < b THEN a ELSE b
Max(a, b) == IF a > b THEN a ELSE b

\* Array.prototype.findIndex, 1-based; 0 when nothing matches
FindIndex(s, Test(_)) ==
    IF \E i \in 1..Len(s) : Test(s[i])
    THEN CHOOSE i \in 1..Len(s) : Test(s[i]) /\ \A j \in 1..(i - 1) : ~Test(s[j])
    ELSE 0

RECURSIVE Fact(_)
Fact(n) == IF n <= 1 THEN 1 ELSE n * Fact(n - 1)

---------------------------------------------------------------------------
(* Calendar: JavaScript Date in UTC *)

IsLeap(y) == (y % 4 = 0 /\ y % 100 # 0) \/ y % 400 = 0

\* new Date(year, monthIndex + 1, 0).getDate(); m0 is the 0-based month index
DaysInMonth(y, m0) ==
    IF m0 = 1 THEN (IF IsLeap(y) THEN 29 ELSE 28)
    ELSE IF m0 \in {3, 5, 8, 10} THEN 30 ELSE 31

DaysInYear(y) == IF IsLeap(y) THEN 366 ELSE 365

\* Day 0 is 2023-01-01

RECURSIVE DaysBeforeYear(_)
DaysBeforeYear(y) == IF y <= 2023 THEN 0 ELSE DaysBeforeYear(y - 1) + DaysInYear(y - 1)

RECURSIVE DaysBeforeMonth(_, _)
DaysBeforeMonth(y, m0) == IF m0 = 0 THEN 0 ELSE DaysBeforeMonth(y, m0 - 1) + DaysInMonth(y, m0 - 1)

\* Date.UTC(y, m0, d) in days; d may run past the end of the month (JS rolls over)
DayNumber(y, m0, d) == DaysBeforeYear(y) + DaysBeforeMonth(y, m0) + (d - 1)

RECURSIVE YearOf(_, _)
YearOf(n, y) == IF n < DaysInYear(y) THEN y ELSE YearOf(n - DaysInYear(y), y + 1)

RECURSIVE MonthOf(_, _, _)
MonthOf(n, y, m0) == IF n < DaysInMonth(y, m0) THEN m0 ELSE MonthOf(n - DaysInMonth(y, m0), y, m0 + 1)

\* getFullYear / getMonth / getDate of a day number
Civil(n) ==
    LET y == YearOf(n, 2023)
        r == n - DaysBeforeYear(y)
        m0 == MonthOf(r, y, 0)
    IN [year |-> y, month |-> m0, day |-> r - DaysBeforeMonth(y, m0) + 1]

\* new Date().toISOString().split('T')[0]
todayISO(t) == t \div 2

\* date-fns differenceInDays(parseISO(date), new Date()): full days, truncated toward zero
daysUntil(date, t) ==
    LET diff == 2 * date - t
    IN IF diff >= 0 THEN diff \div 2 ELSE -((-diff) \div 2)

\* date-fns isPast(parseISO(date))
isDatePast(date, t) == 2 * date < t

isWithinDays(date, days, t) == daysUntil(date, t) >= 0 /\ daysUntil(date, t) <= days

\* Math.ceil((new Date(date) - now) / 86400000)
CeilDays(date, t) ==
    LET diff == 2 * date - t
    IN IF diff >= 0 THEN (diff + 1) \div 2 ELSE -((-diff) \div 2)

---------------------------------------------------------------------------
(* Derived fields: loanHelpers.js, calculations.js *)

StatusSet == {"on_track", "at_risk", "overdue", "defaulted", "paid_off"}

determineLoanStatusOverdueFirst(loan, t) ==
    LET overduePayments == Count(loan.paymentSchedule, LAMBDA p : p.status = "overdue")
        allPaid == \A i \in 1..Len(loan.paymentSchedule) : loan.paymentSchedule[i].status = "paid"
        hasOverdue == \E i \in 1..Len(loan.paymentSchedule) : loan.paymentSchedule[i].status = "overdue"
        upcomingPayments == Count(loan.paymentSchedule,
                                  LAMBDA p : p.status = "pending" /\ isWithinDays(p.dueDate, 7, t))
        incompleteObligations == Count(loan.obligations,
                                       LAMBDA o : ~o.completed /\ isDatePast(o.dueDate, t))
    IN IF hasOverdue THEN "overdue"
       ELSE IF overduePayments >= 3 THEN "defaulted"
       ELSE IF upcomingPayments > 0 \/ incompleteObligations > 0 THEN "at_risk"
       ELSE IF allPaid THEN "paid_off"
       ELSE "on_track"

determineLoanStatus(loan, t) ==
    LET overduePayments == Count(loan.paymentSchedule, LAMBDA p : p.status = "overdue")
        allPaid == \A i \in 1..Len(loan.paymentSchedule) : loan.paymentSchedule[i].status = "paid"
        hasOverdue == \E i \in 1..Len(loan.paymentSchedule) : loan.paymentSchedule[i].status = "overdue"
        upcomingPayments == Count(loan.paymentSchedule,
                                  LAMBDA p : p.status = "pending" /\ isWithinDays(p.dueDate, 7, t))
        incompleteObligations == Count(loan.obligations,
                                       LAMBDA o : ~o.completed /\ isDatePast(o.dueDate, t))
    IN IF overduePayments >= 3 THEN "defaulted"
       ELSE IF allPaid THEN "paid_off"
       ELSE IF hasOverdue THEN "overdue"
       ELSE IF upcomingPayments > 0 \/ incompleteObligations > 0 THEN "at_risk"
       ELSE "on_track"

\* Risk scores are JavaScript numbers with a fractional part; they are kept
\* exactly, as multiples of 1 / RiskScale.
RiskScale == 180 * Fact(MaxTerm)

statusRisk(status) ==
    CASE status = "on_track" -> 0
      [] status = "at_risk" -> 15
      [] status = "overdue" -> 25
      [] status = "defaulted" -> 30
      [] status = "paid_off" -> -20
      [] OTHER -> 0

\* Time to maturity (lines 119-123); daysUntil is null for a missing end date
maturityRisk(loan, t) ==
    LET daysUntilMaturity == daysUntil(loan.endDate, t)
    IN IF loan.endDate # NoDate /\ daysUntilMaturity < 90
       THEN ((90 - daysUntilMaturity) * 20 * RiskScale) \div 90 ELSE 0

\* riskScore before the final Math.min(100, Math.max(0, riskScore))
riskScoreSum(loan, t) ==
    LET overduePayments == Count(loan.paymentSchedule, LAMBDA p : p.status = "overdue")
        totalPayments == Len(loan.paymentSchedule)
        paymentTerm == IF totalPayments > 0
                       THEN (overduePayments * 30 * RiskScale) \div totalPayments ELSE 0
        incompleteObligations == Count(loan.obligations,
                                       LAMBDA o : ~o.completed /\ isDatePast(o.dueDate, t))
        totalObligations == Len(loan.obligations)
        obligationTerm == IF totalObligations > 0
                          THEN (incompleteObligations * 20 * RiskScale) \div totalObligations ELSE 0
    IN 50 * RiskScale + paymentTerm + obligationTerm + maturityRisk(loan, t)
       + statusRisk(loan.status) * RiskScale

calculateRiskScoreUnclamped(loan, t) == riskScoreSum(loan, t)

calculateRiskScore(loan, t) == Min(100 * RiskScale, Max(0, riskScoreSum(loan, t)))

\* { ...loan, ...updates }
Spread(loan, updates) ==
    [f \in DOMAIN loan \cup DOMAIN updates |-> IF f \in DOMAIN updates THEN updates[f] ELSE loan[f]]

enrichLoanKeepSupplied(loan, t) ==
    Spread([status |-> "on_track", riskScore |-> 50 * RiskScale], loan)

enrichLoan(loan, t) ==
    LET status == determineLoanStatus(loan, t)
    IN Spread(loan, [status |-> status,
                     riskScore |-> calculateRiskScore(Spread(loan, [status |-> status]), t)])

\* The zones of the environment: new Date('YYYY-MM-DD') is midnight UTC, which
\* getFullYear / getMonth / getDate read as the same day on UTC and east of
\* it and as the evening of the day before west of it; toISOString() turns
\* the local evening back into the next day (daylight saving is left out)
TimeZones == {"UTC", "west"}

LocalShift == IF timeZone = "west" THEN 1 ELSE 0

\* Due date of period k: the local start date advanced k months, the day
\* clamped to the month's length, read back through toISOString()
ScheduleDueDate(startDate, k) ==
    LET c == Civil(startDate - LocalShift)
        targetYear == c.year + (c.month + k) \div 12
        targetMonth == (c.month + k) % 12
    IN DayNumber(targetYear, targetMonth, Min(c.day, DaysInMonth(targetYear, targetMonth)))
       + LocalShift

\* Amounts are exact fractions [num, den] in lowest terms with den > 0
RECURSIVE GCD(_, _)
GCD(a, b) == IF b = 0 THEN a ELSE GCD(b, a % b)

Abs(x) == IF x < 0 THEN 0 - x ELSE x

Frac(n, d) == LET g == GCD(Abs(n), d) IN [num |-> n \div g, den |-> d \div g]

FracOfInt(n) == [num |-> n, den |-> 1]

FracMul(a, b) ==
    LET g1 == GCD(Abs(a.num), b.den)
        g2 == GCD(Abs(b.num), a.den)
    IN [num |-> (a.num \div g1) * (b.num \div g2),
        den |-> (a.den \div g2) * (b.den \div g1)]

FracSub(a, b) ==
    LET g == GCD(a.den, b.den)
    IN Frac(a.num * (b.den \div g) - b.num * (a.den \div g), (a.den \div g) * b.den)

FracAdd(a, b) == FracSub(a, [num |-> 0 - b.num, den |-> b.den])

FracDiv(a, b) == FracMul(a, [num |-> b.den, den |-> b.num])

RECURSIVE FracPow(_, _)
FracPow(a, n) == IF n = 0 THEN FracOfInt(1) ELSE FracMul(a, FracPow(a, n - 1))

\* A payment that ignores the interest
calculateMonthlyPaymentNoInterest(principal, annualRate, termMonths) ==
    Frac(principal, termMonths)

\* principal / termMonths when the rate is zero, else
\* P * i * (1 + i)^n / ((1 + i)^n - 1) with i = annualRate / 100 / 12
calculateMonthlyPayment(principal, annualRate, termMonths) ==
    IF annualRate = 0 THEN Frac(principal, termMonths)
    ELSE LET monthlyRate == Frac(annualRate, 1200)
             growth == FracPow(Frac(1200 + annualRate, 1200), termMonths)
         IN FracDiv(FracMul(FracMul(FracOfInt(principal), monthlyRate), growth),
                    FracSub(growth, FracOfInt(1)))

\* The loop of generatePaymentSchedule from period i on, remainingPrincipal
\* being the balance left before period i
RECURSIVE SchedulePeriods(_, _, _, _, _)
SchedulePeriods(loan, monthlyPayment, monthlyRate, remainingPrincipal, i) ==
    IF i > loan.term THEN <<>>
    ELSE LET interestAmount == FracMul(remainingPrincipal, monthlyRate)
             principalAmount == FracSub(monthlyPayment, interestAmount)
         IN <<[id |-> <<"payment", loan.id, i>>,
               dueDate |-> ScheduleDueDate(loan.startDate, i),
               amount |-> monthlyPayment,
               status |-> "pending",
               paidDate |-> NoDate,
               principalAmount |-> principalAmount,
               interestAmount |-> interestAmount]>>
            \o SchedulePeriods(loan, monthlyPayment, monthlyRate,
                               FracSub(remainingPrincipal, principalAmount), i + 1)

\* loan carries id, amount, interestRate, term and startDate
generatePaymentSchedule(loan) ==
    IF loan.term = 0 THEN <<>>
    ELSE SchedulePeriods(loan,
                         calculateMonthlyPayment(loan.amount, loan.interestRate, loan.term),
                         Frac(loan.interestRate, 1200), FracOfInt(loan.amount), 1)

\* end.setMonth(end.getMonth() + termMonths): no clamping, the day rolls over
calculateEndDate(startDate, termMonths) ==
    LET c == Civil(startDate)
    IN DayNumber(c.year + (c.month + termMonths) \div 12, (c.month + termMonths) % 12, c.day)


---------------------------------------------------------------------------
(* Values *)

\* No current user (null); user identifiers are sequences of characters
NoUser == <<>>
User1 == <<"a", "@", "x">>
User2 == <<"b", "@", "x">>
Users == {User1, User2}

\* String.prototype.toLowerCase().trim() on the strings of the model
Normalize(str) ==
    CASE str = "Alice" -> "alice"
      [] str = "A@X" -> "a@x"
      [] OTHER -> str

\* a || b for strings
OrStr(a, b) == IF a # Empty /\ a # NULL THEN a ELSE b
\* a || b for numbers and dates (0, NaN and '' are falsy)
OrNum(a, b) == IF a # 0 /\ a # NoDate THEN a ELSE b

\* loan.borrowerEmail?.toLowerCase().trim() || loan.borrower?.toLowerCase().trim() || null
BorrowerIdentifierOf(email, borrower) == OrStr(Normalize(email), OrStr(Normalize(borrower), NULL))

---------------------------------------------------------------------------
(* localStorage and the persist middleware *)

\* userIdentifier.replace(/[@.]/g, '_')
SafeKey(userIdentifier) ==
    [i \in 1..Len(userIdentifier) |->
        IF userIdentifier[i] \in {"@", "."} THEN "_" ELSE userIdentifier[i]]

BaseKey == <<"loan-tracker-storage">>

getUserStorageKey(userIdentifier) ==
    IF userIdentifier = NoUser THEN BaseKey
    ELSE <<"loan-tracker-storage-">> \o SafeKey(userIdentifier)

StorageKeys == {BaseKey} \cup {getUserStorageKey(u) : u \in Users}

defaultFilters ==
    [status |-> {}, borrowers |-> {}, minAmount |-> NoDate, maxAmount |-> NoDate,
     startDateFrom |-> NoDate, startDateTo |-> NoDate]

\* The key the store's persist middleware writes: createJSONStorage calls its
\* factory once, when the store is created, and getUserStorage fixes storageKey
\* at that call, when the adapter's currentUserId is still null.
PersistKey == getUserStorageKey(NoUser)

\* partialize: loans, filters and currentUserId are written after every set
Persist(ls, l, f, u) == [ls EXCEPT ![PersistKey] = <<[loans |-> l, filters |-> f, currentUserId |-> u]>>]

---------------------------------------------------------------------------
(* Store reads *)

getLoans == IF currentUserId = NoUser THEN <<>>
            ELSE Filter(loans, LAMBDA loan : loan.managedBy = currentUserId)

filterLoans(ls, f) ==
    Filter(ls, LAMBDA loan :
        /\ (f.status # {} => loan.status \in f.status)
        /\ (f.borrowers # {} => loan.borrower \in f.borrowers)
        /\ ~(f.minAmount # NoDate /\ loan.amount < f.minAmount)
        /\ ~(f.maxAmount # NoDate /\ loan.amount > f.maxAmount)
        /\ ~(f.startDateFrom # NoDate /\ loan.startDate < f.startDateFrom)
        /\ ~(f.startDateTo # NoDate /\ loan.startDate > f.startDateTo))

getFilteredLoansOf(ls, f, u) ==
    filterLoans(IF u # NoUser THEN Filter(ls, LAMBDA loan : loan.managedBy = u) ELSE <<>>, f)

getFilteredLoans == getFilteredLoansOf(loans, filters, currentUserId)

\* loans.find(loan => loan.id === loanId): <<loan>>, or <<>> for undefined
FindLoan(ls, loanId) ==
    LET i == FindIndex(ls, LAMBDA loan : loan.id = loanId)
    IN IF i = 0 THEN <<>> ELSE <<ls[i]>>

getLoan(loanId) ==
    LET found == FindLoan(loans, loanId)
    IN IF found # <<>> /\ currentUserId # NoUser
       THEN (IF found[1].managedBy = currentUserId THEN found ELSE <<>>)
       ELSE found

getPortfolioStats ==
    LET managedLoans == getFilteredLoans
    IN [totalLoans |-> Len(managedLoans),
        activeLoans |-> Count(managedLoans, LAMBDA loan : loan.status \notin {"paid_off", "defaulted"}),
        overdueLoans |-> Count(managedLoans, LAMBDA loan : loan.status = "overdue"),
        atRiskLoans |-> Count(managedLoans, LAMBDA loan : loan.status = "at_risk")]


---------------------------------------------------------------------------
(* Communications and alert generation *)

RECURSIVE FlatMap(_, _, _)
FlatMap(s, F(_), i) == IF i > Len(s) THEN <<>> ELSE F(s[i]) \o FlatMap(s, F, i + 1)

MapLoans(ls, F(_)) == [i \in 1..Len(ls) |-> F(ls[i])]

addCommunication(ls, loanId, communication, t) ==
    MapLoans(ls, LAMBDA loan :
        IF loan.id # loanId THEN loan
        ELSE [loan EXCEPT !.communications =
                 Append(@, [communication EXCEPT !.id = <<"comm", loanId, t>>])])

\* A notification logged among the loan's notes instead
sendEmailNotificationAsNote(ls, mail, t) ==
    MapLoans(ls, LAMBDA loan :
        IF loan.id # mail.loanId \/ loan.borrowerEmail = Empty THEN loan
        ELSE [loan EXCEPT !.notes = Append(@, [id |-> <<"note", mail.loanId, t>>, content |-> mail.type])])

\* mail = [loanId, type, paymentId, obligationId]
sendEmailNotification(ls, mail, t) ==
    LET found == FindLoan(ls, mail.loanId)
    IN IF found = <<>> \/ found[1].borrowerEmail = Empty THEN ls
       ELSE addCommunication(ls, mail.loanId,
                [id |-> <<>>, type |-> "email", direction |-> "outbound", subject |-> mail.type,
                 automated |-> TRUE, relatedPaymentId |-> mail.paymentId,
                 relatedObligationId |-> mail.obligationId], t)

Mail(loan, type, paymentId, obligationId) ==
    [loanId |-> loan.id, type |-> type, paymentId |-> paymentId, obligationId |-> obligationId]

Alert(loan, itemId, suffix, type, severity) ==
    [id |-> <<"alert", loan.id, itemId, suffix>>, loanId |-> loan.id, type |-> type,
     severity |-> severity, read |-> FALSE]

\* A payment scan that grades every upcoming payment alike
PaymentScanOneSeverity(loan, payment, t) ==
    LET d == CeilDays(payment.dueDate, t)
    IN IF payment.status # "pending" THEN <<>>
       ELSE IF d < 0
       THEN <<[alert |-> <<Alert(loan, payment.id, "overdue", "payment_overdue", "high")>>,
               mail |-> <<>>]>>
       ELSE IF d <= 7
       THEN <<[alert |-> <<Alert(loan, payment.id, "due", "payment_due", "medium")>>,
               mail |-> <<>>]>>
       ELSE <<>>

\* What the scan of one loan pushes and sends, in program order:
\* a sequence of [alert |-> <<alert>> or <<>>, mail |-> <<mail>> or <<>>]
PaymentScan(loan, payment, t) ==
    LET d == CeilDays(payment.dueDate, t)
    IN IF payment.status # "pending" THEN <<>>
       ELSE IF d < 0
       THEN <<[alert |-> <<Alert(loan, payment.id, "overdue", "payment_overdue", "high")>>,
               mail |-> IF loan.borrowerEmail # Empty
                        THEN <<Mail(loan, "payment_overdue", payment.id, <<>>)>> ELSE <<>>]>>
       ELSE IF d <= 7
       THEN <<[alert |-> <<Alert(loan, payment.id, "due", "payment_due",
                               IF d <= 3 THEN "medium" ELSE "low")>>,
               mail |-> IF loan.borrowerEmail # Empty /\ d = 7
                        THEN <<Mail(loan, "payment_reminder", payment.id, <<>>)>> ELSE <<>>]>>
       ELSE <<>>

ObligationScan(loan, obligation, t) ==
    LET d == CeilDays(obligation.dueDate, t)
    IN IF obligation.completed THEN <<>>
       ELSE IF d < 0
       THEN <<[alert |-> <<Alert(loan, obligation.id, "overdue", "obligation_due", "high")>>,
               mail |-> IF loan.borrowerEmail # Empty
                        THEN <<Mail(loan, "obligation_reminder", <<>>, obligation.id)>> ELSE <<>>]>>
       ELSE IF d <= 14
       THEN <<[alert |-> <<Alert(loan, obligation.id, "due", "obligation_due",
                               IF d <= 7 THEN "medium" ELSE "low")>>,
               mail |-> IF loan.borrowerEmail # Empty /\ d = 14
                        THEN <<Mail(loan, "obligation_reminder", <<>>, obligation.id)>> ELSE <<>>]>>
       ELSE <<>>

RiskScan(loan) ==
    IF loan.riskScore > 70 * RiskScale
    THEN <<[alert |-> <<[id |-> <<"alert", loan.id, "risk">>, loanId |-> loan.id,
                         type |-> "risk_warning",
                         severity |-> IF loan.riskScore > 85 * RiskScale THEN "critical" ELSE "high",
                         read |-> FALSE]>>,
            mail |-> <<>>]>>
    ELSE <<>>

LoanScan(loan, t) ==
    FlatMap(loan.paymentSchedule, LAMBDA p : PaymentScan(loan, p, t), 1)
    \o FlatMap(loan.obligations, LAMBDA o : ObligationScan(loan, o, t), 1)
    \o RiskScan(loan)

Scan(managedLoans, t) == FlatMap(managedLoans, LAMBDA loan : LoanScan(loan, t), 1)

ScanAlerts(managedLoans, t) == FlatMap(Scan(managedLoans, t), LAMBDA e : e.alert, 1)
ScanMails(managedLoans, t) == FlatMap(Scan(managedLoans, t), LAMBDA e : e.mail, 1)

\* The mails are sent while the scan runs; each reads and replaces state.loans
RECURSIVE SendAll(_, _, _, _)
SendAll(ls, mails, i, t) ==
    IF i > Len(mails) THEN ls ELSE SendAll(sendEmailNotification(ls, mails[i], t), mails, i + 1, t)

\* A replacement that carries no read flag over
MergeReadNone(generated, prior) == generated

\* existingAlertsMap.get(alert.id): the last prior alert with that id
MergeRead(generated, prior) ==
    [i \in 1..Len(generated) |->
        LET same == {j \in 1..Len(prior) : prior[j].id = generated[i].id}
        IN IF same = {} THEN generated[i]
           ELSE [generated[i] EXCEPT !.read = prior[CHOOSE j \in same : \A k \in same : k <= j].read]]


---------------------------------------------------------------------------
(* Inputs *)

\* The clock at construction: 2024-01-24T00:00Z
NowStart == 2 * DayNumber(2024, 0, 24)

LoanIdA == <<"loan", 1, 0>>
LoanIdB == <<"loan", 2, 0>>

\* The loan objects a caller hands to addLoan (NewLoan.jsx builds them with
\* status 'on_track', riskScore 50 and a generated schedule)
NewLoanA ==
    [id |-> LoanIdA, borrower |-> "Alice", borrowerEmail |-> "a@x", borrowerPhone |-> "p1",
     loanOfficer |-> Empty, amount |-> 1200, interestRate |-> 6, term |-> 1,
     startDate |-> DayNumber(2023, 11, 31),
     endDate |-> calculateEndDate(DayNumber(2023, 11, 31), 1),
     status |-> "on_track", riskScore |-> 50 * RiskScale,
     paymentSchedule |-> generatePaymentSchedule([id |-> LoanIdA, amount |-> 1200, interestRate |-> 6,
                                             term |-> 1, startDate |-> DayNumber(2023, 11, 31)]),
     obligations |-> <<[id |-> <<"obl", LoanIdA, 1>>, dueDate |-> DayNumber(2024, 0, 24),
                        completed |-> FALSE, completedDate |-> NoDate]>>,
     notes |-> <<>>, communications |-> <<>>]

NewLoanB ==
    [id |-> LoanIdB, borrower |-> "bob", borrowerEmail |-> "b@x", borrowerPhone |-> Empty,
     loanOfficer |-> Empty, amount |-> 5000, interestRate |-> 5, term |-> 1,
     startDate |-> DayNumber(2023, 11, 23),
     endDate |-> calculateEndDate(DayNumber(2023, 11, 23), 1),
     status |-> "on_track", riskScore |-> 50 * RiskScale,
     paymentSchedule |-> generatePaymentSchedule([id |-> LoanIdB, amount |-> 5000, interestRate |-> 5,
                                             term |-> 1, startDate |-> DayNumber(2023, 11, 23)]),
     obligations |-> <<>>, notes |-> <<>>, communications |-> <<>>]

NewLoans == {NewLoanA, NewLoanB}

\* The partial objects a caller hands to updateLoan
LoanUpdates == {[status |-> "paid_off", riskScore |-> 0]}

TermUpdates == {[term |-> n] : n \in 1..MaxTerm}

PaymentUpdates == {[status |-> "paid"], [status |-> "overdue"]}

---------------------------------------------------------------------------
(* ImportNormalizer: parseCSV of fileImport.js.  A file is                        *)
(* [extension, readable, headers, rows]: the extension of its name, whether      *)
(* FileReader can read it, the canonical columns its header line names and its   *)
(* data rows; a row gives the cell of each column of the header                  *)
(* borrower,amount,interestRate,term,startDate,endDate,borrowerEmail,            *)
(* borrowerPhone,loanOfficer,status (Empty, 0 or NoDate for an empty cell).      *)

\* The columns parseCSV requires of the header (lines 114-140)
RequiredColumns == {"borrower", "amount", "interestRate", "term", "startDate"}

\* First non-empty text cell after the borrower column (lines 226-237)
FirstText(row) ==
    OrStr(row.borrowerEmail, OrStr(row.borrowerPhone, OrStr(row.loanOfficer, row.status)))

\* parseFloat / parseInt of the cells in column order; a date cell parses to its year
NumericCells(row) ==
    <<row.amount, row.interestRate, row.term>>
    \o (IF row.startDate # NoDate THEN <<Civil(row.startDate).year>> ELSE <<>>)
    \o (IF row.endDate # NoDate THEN <<Civil(row.endDate).year>> ELSE <<>>)

FirstWhere(s, Test(_), default) ==
    LET i == FindIndex(s, Test) IN IF i = 0 THEN default ELSE s[i]

\* Date.now(): the clock plus a part finer than the clock's step
Stamp(t, ms) == 2 * t + ms

\* The loan object of data row i, <<>> when the row is skipped (lines 177-336)
ParseRow(row, i, t, ms) ==
    LET borrower == OrStr(row.borrower, FirstText(row))
        amount == IF row.amount # 0 THEN row.amount
                  ELSE FirstWhere(NumericCells(row), LAMBDA v : v > 1000, 0)
        interestRate == IF row.interestRate # 0 THEN row.interestRate
                        ELSE FirstWhere(NumericCells(row), LAMBDA v : v > 0 /\ v < 100, 0)
        term == IF row.term # 0 THEN row.term
                ELSE FirstWhere(NumericCells(row), LAMBDA v : v > 0 /\ v < 600, 0)
        startDate == OrNum(row.startDate, OrNum(row.endDate, todayISO(t)))
        id == <<"loan-import", Stamp(t, ms), i>>
    IN IF borrower = Empty \/ amount = 0 \/ interestRate = 0 \/ term = 0 THEN <<>>
       ELSE <<[id |-> id, borrower |-> borrower, amount |-> amount,
               interestRate |-> interestRate, term |-> term, startDate |-> startDate,
               endDate |-> OrNum(row.endDate, calculateEndDate(startDate, term)),
               status |-> OrStr(row.status, "on_track"),
               borrowerEmail |-> row.borrowerEmail, borrowerPhone |-> row.borrowerPhone,
               loanOfficer |-> row.loanOfficer,
               obligations |-> <<>>, notes |-> <<>>, communications |-> <<>>,
               paymentSchedule |-> generatePaymentSchedule(
                   [id |-> id, amount |-> amount, interestRate |-> interestRate,
                    term |-> term, startDate |-> startDate])]>>

RECURSIVE ParseRows(_, _, _, _)
ParseRows(rows, i, t, ms) ==
    IF i > Len(rows) THEN <<>> ELSE ParseRow(rows[i], i, t, ms) \o ParseRows(rows, i + 1, t, ms)

\* parseCSV: throws when the text has no data row or the header lacks a
\* required column, else returns the loan objects
parseCSV(file, t, ms) ==
    IF Len(file.rows) < 1 \/ ~(RequiredColumns \subseteq file.headers)
    THEN [threw |-> TRUE, loans |-> <<>>]
    ELSE [threw |-> FALSE, loans |-> ParseRows(file.rows, 1, t, ms)]

\* The parse phase of both imports: the extension picks the parser (only the
\* CSV branch is modelled), readFileAsText rejects when the read fails
ParseFile(file, t, ms) ==
    IF file.extension # "csv" \/ ~file.readable THEN [threw |-> TRUE, loans |-> <<>>]
    ELSE parseCSV(file, t, ms)

\* The loans of the record under a key ([] when there is none)
StoredLoans(ls, key) == IF ls[key] = <<>> THEN <<>> ELSE ls[key][1].loans

\* { ...parsed.state, loans, alerts: [] }, or the fresh state (lines 741-771)
UpdatedState(ls, key, updatedLoans, userIdentifier) ==
    IF ls[key] # <<>> THEN <<[ls[key][1] EXCEPT !.loans = updatedLoans]>>
    ELSE <<[loans |-> updatedLoans, filters |-> defaultFilters, currentUserId |-> userIdentifier]>>

---------------------------------------------------------------------------
(* Append-only import: importLoansFromFile of fileImport.js *)

\* `${borrower.toLowerCase().trim()}_${amount}_${startDate}`
LoanKey(l) == <<Normalize(l.borrower), l.amount, l.startDate>>

WithOwner(l, userIdentifier) ==
    [f \in DOMAIN l \cup {"managedBy", "borrowerIdentifier"} |->
        IF f = "managedBy" THEN userIdentifier
        ELSE IF f = "borrowerIdentifier" THEN BorrowerIdentifierOf(l.borrowerEmail, l.borrower)
        ELSE l[f]]

\* enrichedLoans.filter(...): the rows kept, with the keys seen so far
RECURSIVE NewLoansOf(_, _, _, _)
NewLoansOf(enriched, i, existingIds, keys) ==
    IF i > Len(enriched) THEN <<>>
    ELSE IF enriched[i].id \in existingIds \/ LoanKey(enriched[i]) \in keys
         THEN NewLoansOf(enriched, i + 1, existingIds, keys)
         ELSE <<enriched[i]>> \o NewLoansOf(enriched, i + 1, existingIds, keys \cup {LoanKey(enriched[i])})

---------------------------------------------------------------------------
(* ReconciliationMatcher: bulkUpdate.js (calculations.js lines 265-527) *)

\* matchExistingLoan throws a TypeError: a find() callback reaches a loan whose
\* email or identifier is no string before it reaches a match
FindThrows(existingLoans, Bad(_), Hit(_)) ==
    \E i \in 1..Len(existingLoans) :
        /\ Bad(existingLoans[i])
        /\ \A j \in 1..(i - 1) : ~Hit(existingLoans[j])

matchExistingLoanThrows(importLoan, existingLoans) ==
    LET importEmail == Normalize(importLoan.borrowerEmail)
        importName == Normalize(importLoan.borrower)
        emailHit(loan) == \/ Normalize(loan.borrowerEmail) = importEmail
                          \/ Normalize(loan.borrowerIdentifier) = importEmail
        nameHit(loan) == \/ Normalize(loan.borrower) = importName
                         \/ Normalize(loan.borrowerIdentifier) = importName
        emailThrows ==
            /\ importEmail # Empty
            /\ FindThrows(existingLoans,
                          LAMBDA loan : NotAString \in {loan.borrowerEmail, loan.borrowerIdentifier},
                          emailHit)
        emailFound == importEmail # Empty /\ \E i \in 1..Len(existingLoans) : emailHit(existingLoans[i])
        nameThrows ==
            /\ importName # Empty
            /\ FindThrows(existingLoans,
                          LAMBDA loan : NotAString \in {loan.borrower, loan.borrowerIdentifier},
                          nameHit)
    IN /\ ~(importEmail = Empty /\ importName = Empty)
       /\ emailThrows \/ (~emailFound /\ nameThrows)

\* A matcher that tries the name before the email
matchExistingLoanNameFirst(importLoan, existingLoans) ==
    LET importEmail == Normalize(importLoan.borrowerEmail)
        importName == Normalize(importLoan.borrower)
        byEmail == FindIndex(existingLoans, LAMBDA loan :
                       Normalize(loan.borrowerEmail) = importEmail
                       \/ Normalize(loan.borrowerIdentifier) = importEmail)
        byName == FindIndex(existingLoans, LAMBDA loan :
                      Normalize(loan.borrower) = importName
                      \/ Normalize(loan.borrowerIdentifier) = importName)
    IN IF importEmail = Empty /\ importName = Empty THEN <<>>
       ELSE IF importName # Empty /\ byName # 0 THEN <<existingLoans[byName]>>
       ELSE IF importEmail # Empty /\ byEmail # 0 THEN <<existingLoans[byEmail]>>
       ELSE <<>>

\* <<loan>> for the match, <<>> for null
matchExistingLoan(importLoan, existingLoans) ==
    LET importEmail == Normalize(importLoan.borrowerEmail)
        importName == Normalize(importLoan.borrower)
        byEmail == FindIndex(existingLoans, LAMBDA loan :
                       Normalize(loan.borrowerEmail) = importEmail
                       \/ Normalize(loan.borrowerIdentifier) = importEmail)
        byName == FindIndex(existingLoans, LAMBDA loan :
                      Normalize(loan.borrower) = importName
                      \/ Normalize(loan.borrowerIdentifier) = importName)
    IN IF importEmail = Empty /\ importName = Empty THEN <<>>
       ELSE IF importEmail # Empty /\ byEmail # 0 THEN <<existingLoans[byEmail]>>
       ELSE IF importName # Empty /\ byName # 0 THEN <<existingLoans[byName]>>
       ELSE <<>>

updateLoanWithImportDataOverwrite(existingLoan, importData, t) ==
    enrichLoan([f \in DOMAIN existingLoan |->
                   IF f \in DOMAIN importData /\ f \notin {"id"} THEN importData[f]
                   ELSE existingLoan[f]], t)

updateLoanWithImportData(existingLoan, importData, t) ==
    enrichLoan(
        [existingLoan EXCEPT
            !.borrower = OrStr(importData.borrower, @),
            !.amount = OrNum(importData.amount, @),
            !.interestRate = OrNum(importData.interestRate, @),
            !.term = OrNum(importData.term, @),
            !.startDate = OrNum(importData.startDate, @),
            !.endDate = OrNum(importData.endDate, @),
            !.borrowerEmail = OrStr(importData.borrowerEmail, @),
            !.borrowerPhone = OrStr(importData.borrowerPhone, @),
            !.loanOfficer = OrStr(importData.loanOfficer, @),
            !.borrowerIdentifier = OrStr(Normalize(importData.borrowerEmail),
                                         OrStr(Normalize(importData.borrower), @)),
            !.paymentSchedule =
                IF Len(@) > 0 THEN @
                ELSE generatePaymentSchedule(
                         [id |-> existingLoan.id,
                          amount |-> OrNum(importData.amount, existingLoan.amount),
                          interestRate |-> OrNum(importData.interestRate,
                                                 existingLoan.interestRate),
                          term |-> OrNum(importData.term, existingLoan.term),
                          startDate |-> OrNum(importData.startDate,
                                              existingLoan.startDate)]),
            !.status = OrStr(importData.status, @)], t)

\* One pass of the loop over importedLoans (lines 409-473); acc is
\* [loans, updated, created, written]: updated and created list loan ids as
\* results.updated and results.created do, written is the set of the
\* positions of existingLoans the loop assigned; errors lists the borrowers
\* results.errors lists, failed the positions of their candidates in the
\* batch, pos counts the passes of the loop
ProcessImportLoan(acc, importLoan, userIdentifier, t) ==
    LET match == matchExistingLoan(importLoan, acc.loans)
    IN IF matchExistingLoanThrows(importLoan, acc.loans)
       THEN [acc EXCEPT !.errors = Append(@, importLoan.borrower),
                        !.failed = @ \cup {acc.pos + 1},
                        !.pos = @ + 1]
       ELSE IF match # <<>>
       THEN LET updatedLoan == updateLoanWithImportData(match[1], importLoan, t)
                index == FindIndex(acc.loans, LAMBDA l : l.id = match[1].id)
            IN [loans |-> [acc.loans EXCEPT ![index] = updatedLoan],
                updated |-> Append(acc.updated, updatedLoan.id),
                created |-> acc.created,
                written |-> acc.written \cup {index},
                errors |-> acc.errors, failed |-> acc.failed, pos |-> acc.pos + 1]
       ELSE LET newLoan ==
                    [f \in DOMAIN importLoan \cup {"managedBy", "borrowerIdentifier", "riskScore"} |->
                        IF f = "managedBy" THEN userIdentifier
                        ELSE IF f = "borrowerIdentifier"
                             THEN BorrowerIdentifierOf(importLoan.borrowerEmail, importLoan.borrower)
                        ELSE IF f = "riskScore" THEN 50 * RiskScale
                        ELSE importLoan[f]]
                enrichedLoan == enrichLoan(newLoan, t)
            IN [loans |-> Append(acc.loans, enrichedLoan),
                updated |-> acc.updated,
                created |-> Append(acc.created, enrichedLoan.id),
                written |-> acc.written \cup {Len(acc.loans) + 1},
                errors |-> acc.errors, failed |-> acc.failed, pos |-> acc.pos + 1]

\* A loop that stops at the first candidate that throws
RECURSIVE ProcessAllAbortOnError(_, _, _, _, _)
ProcessAllAbortOnError(acc, importedLoans, i, userIdentifier, t) ==
    IF i > Len(importedLoans) \/ acc.errors # <<>> THEN acc
    ELSE ProcessAllAbortOnError(ProcessImportLoan(acc, importedLoans[i], userIdentifier, t),
                                importedLoans, i + 1, userIdentifier, t)

RECURSIVE ProcessAll(_, _, _, _, _)
ProcessAll(acc, importedLoans, i, userIdentifier, t) ==
    IF i > Len(importedLoans) THEN acc
    ELSE ProcessAll(ProcessImportLoan(acc, importedLoans[i], userIdentifier, t),
                    importedLoans, i + 1, userIdentifier, t)

---------------------------------------------------------------------------
(* Store actions: useLoanStore.js *)

Init ==
    /\ timeZone = "UTC"
    /\ pending = {}
    /\ loans = <<>>
    /\ filters = defaultFilters
    /\ selectedLoanId = <<>>
    /\ alerts = <<>>
    /\ currentUserId = NoUser
    /\ localStorage = [k \in StorageKeys |-> <<>>]
    /\ now = NowStart
    /\ lastOp = [op |-> "init"]
    /\ hist = [scanAt |-> NoDate, appended |-> <<>>]

\* Every set() of the store is followed by the persist middleware's write
StoreSet ==
    localStorage' = Persist(localStorage, loans', filters', currentUserId')

\* hist.scanAt: the instant of the last alert scan when nothing but read marks
\* followed it, else NoDate (lastOp.again of a scan: it repeats such a scan
\* at the same instant).  hist.appended: <<file, user>> of the last
\* append-only import when nothing but clock steps followed it, else <<>>.
HistReset == hist' = [scanAt |-> NoDate, appended |-> <<>>]

setCurrentUser(userId) ==
    /\ currentUserId' = userId
    /\ UNCHANGED <<loans, filters, selectedLoanId, alerts, now>>
    /\ StoreSet
    /\ timeZone' = timeZone
    /\ pending' = pending
    /\ lastOp' = [op |-> "setCurrentUser"]
    /\ HistReset

addLoan(loan) ==
    /\ LET loanWithTracking ==
               [f \in DOMAIN loan \cup {"managedBy", "borrowerIdentifier"} |->
                   IF f = "managedBy" THEN currentUserId
                   ELSE IF f = "borrowerIdentifier"
                        THEN BorrowerIdentifierOf(loan.borrowerEmail, loan.borrower)
                   ELSE loan[f]]
           enrichedLoan == enrichLoan(loanWithTracking, now)
       IN /\ loans' = Append(loans, enrichedLoan)
          /\ timeZone' = timeZone
          /\ pending' = pending
          /\ lastOp' = [op |-> "addLoan", loanId |-> loan.id]
    /\ UNCHANGED <<filters, selectedLoanId, alerts, currentUserId, now>>
    /\ StoreSet
    /\ HistReset

updateLoan(loanId, updates) ==
    /\ loans' = MapLoans(loans, LAMBDA loan :
                    IF loan.id = loanId THEN enrichLoan(Spread(loan, updates), now) ELSE loan)
    /\ timeZone' = timeZone
    /\ pending' = pending
    /\ lastOp' = [op |-> "updateLoan", loanId |-> loanId]
    /\ UNCHANGED <<filters, selectedLoanId, alerts, currentUserId, now>>
    /\ StoreSet
    /\ HistReset

deleteLoan(loanId) ==
    /\ loans' = Filter(loans, LAMBDA loan :
                    IF loan.id = loanId THEN loan.managedBy # currentUserId ELSE TRUE)
    /\ selectedLoanId' = IF selectedLoanId = loanId THEN <<>> ELSE selectedLoanId
    /\ timeZone' = timeZone
    /\ pending' = pending
    /\ lastOp' = [op |-> "deleteLoan", loanId |-> loanId]
    /\ UNCHANGED <<filters, alerts, currentUserId, now>>
    /\ StoreSet
    /\ HistReset

setSelectedLoan(loanId) ==
    /\ selectedLoanId' = loanId
    /\ timeZone' = timeZone
    /\ pending' = pending
    /\ lastOp' = [op |-> "setSelectedLoan", loanId |-> loanId]
    /\ UNCHANGED <<loans, filters, alerts, currentUserId, now>>
    /\ StoreSet
    /\ HistReset

updatePaymentStatus(loanId, paymentId, status, paidDate) ==
    /\ loans' = MapLoans(loans, LAMBDA loan :
                    IF loan.id # loanId \/ loan.managedBy # currentUserId THEN loan
                    ELSE enrichLoan(
                           [loan EXCEPT !.paymentSchedule =
                               [i \in 1..Len(@) |->
                                   IF @[i].id = paymentId
                                   THEN [@[i] EXCEPT !.status = status, !.paidDate = paidDate]
                                   ELSE @[i]]], now))
    /\ timeZone' = timeZone
    /\ pending' = pending
    /\ lastOp' = [op |-> "updatePaymentStatus", loanId |-> loanId]
    /\ UNCHANGED <<filters, selectedLoanId, alerts, currentUserId, now>>
    /\ StoreSet
    /\ HistReset

updateObligationStatus(loanId, obligationId, completed, completedDate) ==
    /\ loans' = MapLoans(loans, LAMBDA loan :
                    IF loan.id # loanId THEN loan
                    ELSE enrichLoan(
                           [loan EXCEPT !.obligations =
                               [i \in 1..Len(@) |->
                                   IF @[i].id = obligationId
                                   THEN [@[i] EXCEPT !.completed = completed,
                                                     !.completedDate = completedDate]
                                   ELSE @[i]]], now))
    /\ timeZone' = timeZone
    /\ pending' = pending
    /\ lastOp' = [op |-> "updateObligationStatus", loanId |-> loanId]
    /\ UNCHANGED <<filters, selectedLoanId, alerts, currentUserId, now>>
    /\ StoreSet
    /\ HistReset

\* addNote(loanId, note): the note is appended to the loan with that identifier
addNote(loanId, note) ==
    /\ loans' = MapLoans(loans, LAMBDA loan :
                    IF loan.id = loanId THEN [loan EXCEPT !.notes = Append(@, note)] ELSE loan)
    /\ timeZone' = timeZone
    /\ pending' = pending
    /\ lastOp' = [op |-> "addNote", loanId |-> loanId]
    /\ UNCHANGED <<filters, selectedLoanId, alerts, currentUserId, now>>
    /\ StoreSet
    /\ HistReset

\* The store's addCommunication(loanId, communication)
addCommunicationToLoan(loanId, communication) ==
    /\ loans' = addCommunication(loans, loanId, communication, now)
    /\ timeZone' = timeZone
    /\ pending' = pending
    /\ lastOp' = [op |-> "addCommunication", loanId |-> loanId]
    /\ UNCHANGED <<filters, selectedLoanId, alerts, currentUserId, now>>
    /\ StoreSet
    /\ HistReset

setFilters(newFilters) ==
    /\ filters' = Spread(filters, newFilters)
    /\ timeZone' = timeZone
    /\ pending' = pending
    /\ lastOp' = [op |-> "setFilters"]
    /\ UNCHANGED <<loans, selectedLoanId, alerts, currentUserId, now>>
    /\ StoreSet
    /\ HistReset

resetFilters ==
    /\ filters' = defaultFilters
    /\ timeZone' = timeZone
    /\ pending' = pending
    /\ lastOp' = [op |-> "resetFilters"]
    /\ UNCHANGED <<loans, selectedLoanId, alerts, currentUserId, now>>
    /\ StoreSet
    /\ HistReset

\* The loans and alerts the store holds after generateAlerts() ran on ls
GeneratedLoans(ls, f, u, t) == SendAll(ls, ScanMails(getFilteredLoansOf(ls, f, u), t), 1, t)
GeneratedAlerts(ls, f, u, prior, t) == MergeRead(ScanAlerts(getFilteredLoansOf(ls, f, u), t), prior)

generateAlerts ==
    /\ \E sent \in {GeneratedLoans(loans, filters, currentUserId, now)} :
          /\ \A i \in 1..Len(sent) : Len(sent[i].communications) <= MaxComms
          /\ loans' = sent
    /\ alerts' = GeneratedAlerts(loans, filters, currentUserId, alerts, now)
    /\ timeZone' = timeZone
    /\ pending' = pending
    /\ lastOp' = [op |-> "generateAlerts", again |-> (hist.scanAt = now)]
    /\ UNCHANGED <<filters, selectedLoanId, currentUserId, now>>
    /\ StoreSet
    /\ hist' = [scanAt |-> now, appended |-> <<>>]

markAlertRead(alertId) ==
    /\ alerts' = [i \in 1..Len(alerts) |->
                     IF alerts[i].id = alertId THEN [alerts[i] EXCEPT !.read = TRUE] ELSE alerts[i]]
    /\ timeZone' = timeZone
    /\ pending' = pending
    /\ lastOp' = [op |-> "markAlertRead"]
    /\ UNCHANGED <<loans, filters, selectedLoanId, currentUserId, now>>
    /\ StoreSet
    /\ hist' = [hist EXCEPT !.appended = <<>>]

markAllAlertsRead ==
    /\ alerts' = [i \in 1..Len(alerts) |-> [alerts[i] EXCEPT !.read = TRUE]]
    /\ timeZone' = timeZone
    /\ pending' = pending
    /\ lastOp' = [op |-> "markAllAlertsRead"]
    /\ UNCHANGED <<loans, filters, selectedLoanId, currentUserId, now>>
    /\ StoreSet
    /\ hist' = [hist EXCEPT !.appended = <<>>]

\* Time passes
Tick ==
    /\ now < NowStart + MaxAdvance
    /\ now' = now + 1
    /\ timeZone' = timeZone
    /\ pending' = pending
    /\ lastOp' = [op |-> "tick"]
    /\ UNCHANGED <<loans, filters, selectedLoanId, alerts, currentUserId, localStorage, hist>>

\* useLoanStore.setState({ loans }) followed by generateAlerts(), both persisted
SetLoansAndGenerateAlerts(newLoans) ==
    /\ \E sent \in {GeneratedLoans(newLoans, filters, currentUserId, now)} :
          /\ \A i \in 1..Len(sent) : Len(sent[i].communications) <= MaxComms
          /\ loans' = sent
    /\ alerts' = GeneratedAlerts(newLoans, filters, currentUserId, alerts, now)
    /\ UNCHANGED <<filters, selectedLoanId, currentUserId, now>>

\* A rejection that comes after the owner's record was rewritten without loans
ImportRejectedAfterWrite(name, file, userIdentifier) ==
    /\ timeZone' = timeZone
    /\ pending' = pending \ {[op |-> name, file |-> file, user |-> userIdentifier]}
    /\ lastOp' = [op |-> name, ok |-> FALSE, file |-> file, user |-> userIdentifier]
    /\ localStorage' =
          [localStorage EXCEPT ![getUserStorageKey(userIdentifier)] =
              UpdatedState(localStorage, getUserStorageKey(userIdentifier), <<>>, userIdentifier)]
    /\ UNCHANGED <<loans, filters, selectedLoanId, alerts, currentUserId, now, hist>>

\* A rejected import: nothing is written
ImportRejected(name, file, userIdentifier) ==
    /\ timeZone' = timeZone
    /\ pending' = pending \ {[op |-> name, file |-> file, user |-> userIdentifier]}
    /\ lastOp' = [op |-> name, ok |-> FALSE, file |-> file, user |-> userIdentifier]
    /\ UNCHANGED <<loans, filters, selectedLoanId, alerts, currentUserId, localStorage, now, hist>>

\* Date.now() has advanced since every import whose loans are still held:
\* no loan carries the stamp an import now gives its rows (imports that do
\* not run within one millisecond of each other)
DateNowFresh(ms) ==
    \A key \in StorageKeys :
          \A l \in {StoredLoans(localStorage, key)[i] : i \in 1..Len(StoredLoans(localStorage, key))}
                    \cup {loans[i] : i \in 1..Len(loans)} :
              ~(l.id[1] = "loan-import" /\ l.id[2] = Stamp(now, ms))

\* An import is called: it is suspended at the read of its file (await), and
\* what it reads from localStorage and writes happens when the read is over
StartImport(name, file, userIdentifier) ==
    /\ pending' = pending \cup {[op |-> name, file |-> file, user |-> userIdentifier]}
    /\ timeZone' = timeZone
    /\ lastOp' = [op |-> "startImport", name |-> name, file |-> file, user |-> userIdentifier]
    /\ UNCHANGED <<loans, filters, selectedLoanId, alerts, currentUserId, localStorage, now, hist>>

\* What importLoansFromFile computes from the parsed loans and the stored record
AppendOnly(parsed, existingLoans, userIdentifier, t) ==
    LET enrichedLoans == [i \in 1..Len(parsed) |-> WithOwner(enrichLoan(parsed[i], t), userIdentifier)]
        existingIds == {existingLoans[i].id : i \in 1..Len(existingLoans)}
        existingLoanKeys == {LoanKey(existingLoans[i]) : i \in 1..Len(existingLoans)}
    IN NewLoansOf(enrichedLoans, 1, existingIds, existingLoanKeys)

importLoansFromFile(file, userIdentifier, ms) ==
    \E parsedFile \in {ParseFile(file, now, ms)} :
        IF userIdentifier = NoUser \/ parsedFile.threw \/ parsedFile.loans = <<>>
        THEN ImportRejected("importLoansFromFile", file, userIdentifier)
        ELSE \E storageKey \in {getUserStorageKey(userIdentifier)} :
             \E existingLoans \in {StoredLoans(localStorage, storageKey)} :
             \E newLoans \in {AppendOnly(parsedFile.loans, existingLoans, userIdentifier, now)} :
             \E updatedLoans \in {existingLoans \o newLoans} :
                /\ Len(updatedLoans) <= MaxLoans
                /\ SetLoansAndGenerateAlerts(updatedLoans)
                /\ localStorage' =
                      Persist([localStorage EXCEPT ![storageKey] =
                                  UpdatedState(localStorage, storageKey, updatedLoans, userIdentifier)],
                              loans', filters', currentUserId')
                /\ timeZone' = timeZone
                /\ pending' = pending \ {[op |-> "importLoansFromFile", file |-> file, user |-> userIdentifier]}
                /\ lastOp' = [op |-> "importLoansFromFile", ok |-> TRUE, user |-> userIdentifier,
                              file |-> file,
                              parsed |-> Len(parsedFile.loans),
                              imported |-> Len(newLoans), total |-> Len(updatedLoans),
                              skipped |-> Len(parsedFile.loans) - Len(newLoans)]
                /\ hist' = [scanAt |-> now, appended |-> <<file, userIdentifier>>]

importAndUpdateLoansFromFile(file, userIdentifier, ms) ==
    \E parsedFile \in {ParseFile(file, now, ms)} :
        IF userIdentifier = NoUser \/ parsedFile.threw \/ parsedFile.loans = <<>>
        THEN ImportRejected("importAndUpdateLoansFromFile", file, userIdentifier)
        ELSE \E storageKey \in {getUserStorageKey(userIdentifier)} :
             \E existingLoans \in {StoredLoans(localStorage, storageKey)} :
             \E results \in {ProcessAll([loans |-> existingLoans, updated |-> <<>>, created |-> <<>>,
                                         written |-> {}, errors |-> <<>>, failed |-> {}, pos |-> 0],
                                        parsedFile.loans, 1, userIdentifier, now)} :
                /\ Len(results.loans) <= MaxLoans
                /\ SetLoansAndGenerateAlerts(results.loans)
                /\ localStorage' =
                      Persist([localStorage EXCEPT ![storageKey] =
                                  UpdatedState(localStorage, storageKey, results.loans, userIdentifier)],
                              loans', filters', currentUserId')
                /\ timeZone' = timeZone
                /\ pending' = pending \ {[op |-> "importAndUpdateLoansFromFile", file |-> file, user |-> userIdentifier]}
                /\ lastOp' = [op |-> "importAndUpdateLoansFromFile", user |-> userIdentifier,
                              file |-> file,
                              ok |-> TRUE, parsed |-> Len(parsedFile.loans),
                              updated |-> results.updated, created |-> results.created,
                              errors |-> results.errors, failed |-> results.failed,
                              written |-> results.written, total |-> Len(results.loans)]
                /\ hist' = [scanAt |-> now, appended |-> <<>>]

\* exportLoanData of dataManagement.js: <<document>> built from the owner's
\* record, <<>> (null) without identifier or record
exportLoanData(ls, userIdentifier, t) ==
    IF userIdentifier = NoUser \/ ls[getUserStorageKey(userIdentifier)] = <<>> THEN <<>>
    ELSE LET exported == StoredLoans(ls, getUserStorageKey(userIdentifier))
         IN <<[version |-> "1.0", exportDate |-> t, loanCount |-> Len(exported),
               loans |-> exported]>>

\* imported.loans || imported: the loans of a parsed document
LoansOfDocument(imported) == imported.loans

\* An import that draws the schedule of every loan afresh
AssociateWithUserFreshSchedule(validLoans, userIdentifier, t) ==
    MapLoans(validLoans, LAMBDA loan :
        Spread(enrichLoan([loan EXCEPT !.paymentSchedule =
                              generatePaymentSchedule(loan)], t),
               [userId |-> userIdentifier, userEmail |-> userIdentifier]))

\* validLoans.map(loan => ({ ...enrichLoan(loan), userId, userEmail }))
AssociateWithUser(validLoans, userIdentifier, t) ==
    MapLoans(validLoans, LAMBDA loan :
        Spread(enrichLoan(loan, t), [userId |-> userIdentifier, userEmail |-> userIdentifier]))

\* importLoanData of dataManagement.js: the loans of a JSON export replace the
\* loans of the owner's record; the store is not touched
importLoanData(jsonLoans, userIdentifier) ==
    IF userIdentifier = NoUser
    THEN ImportRejected("importLoanData", jsonLoans, userIdentifier)
    ELSE \E validLoans \in {Filter(jsonLoans, LAMBDA loan :
                                 loan.id # <<>> /\ loan.borrower # Empty /\ loan.amount # 0)} :
            IF validLoans = <<>>
            THEN ImportRejected("importLoanData", jsonLoans, userIdentifier)
            ELSE \E storageKey \in {getUserStorageKey(userIdentifier)} :
                 \E enrichedLoans \in {AssociateWithUser(validLoans, userIdentifier, now)} :
                    /\ Len(enrichedLoans) <= MaxLoans
                    /\ localStorage' =
                          [localStorage EXCEPT ![storageKey] =
                              UpdatedState(localStorage, storageKey, enrichedLoans, userIdentifier)]
                    /\ timeZone' = timeZone
                    /\ pending' = pending
                    /\ lastOp' = [op |-> "importLoanData", ok |-> TRUE, file |-> jsonLoans,
                                  user |-> userIdentifier, imported |-> Len(validLoans),
                                  total |-> Len(enrichedLoans)]
                    /\ HistReset
                    /\ UNCHANGED <<loans, filters, selectedLoanId, alerts, currentUserId, now>>

\* clearAllData(userIdentifier) of dataManagement.js: the item under the owner's
\* key is removed; without an identifier nothing is removed and false returned
clearAllData(userIdentifier) ==
    /\ localStorage' = IF userIdentifier = NoUser THEN localStorage
                       ELSE [localStorage EXCEPT ![getUserStorageKey(userIdentifier)] = <<>>]
    /\ timeZone' = timeZone
    /\ pending' = pending
    /\ lastOp' = [op |-> "clearAllData", ok |-> userIdentifier # NoUser, user |-> userIdentifier]
    /\ HistReset
    /\ UNCHANGED <<loans, filters, selectedLoanId, alerts, currentUserId, now>>

LoanIds == {loans[i].id : i \in 1..Len(loans)}
PaymentIds == UNION {{loans[i].paymentSchedule[j].id : j \in 1..Len(loans[i].paymentSchedule)} :
                     i \in 1..Len(loans)}
ObligationIds == UNION {{loans[i].obligations[j].id : j \in 1..Len(loans[i].obligations)} :
                        i \in 1..Len(loans)}
AlertIds == {alerts[i].id : i \in 1..Len(alerts)}

---------------------------------------------------------------------------
(* Files *)

RowAlice ==
    [borrower |-> "Alice", amount |-> 1200, interestRate |-> 6, term |-> 1,
     startDate |-> DayNumber(2023, 11, 31), endDate |-> NoDate, borrowerEmail |-> "a@x",
     borrowerPhone |-> "p1", loanOfficer |-> Empty, status |-> Empty]

\* Same borrower and email in another spelling, another phone, no start date, a status cell
RowAliceNewPhone ==
    [borrower |-> "alice", amount |-> 2000, interestRate |-> 6, term |-> 2,
     startDate |-> NoDate, endDate |-> NoDate, borrowerEmail |-> "A@X",
     borrowerPhone |-> "p2", loanOfficer |-> Empty, status |-> "paid_off"]

RowBob ==
    [borrower |-> "bob", amount |-> 5000, interestRate |-> 5, term |-> 1,
     startDate |-> DayNumber(2023, 11, 23), endDate |-> NoDate, borrowerEmail |-> Empty,
     borrowerPhone |-> Empty, loanOfficer |-> Empty, status |-> Empty]

\* No rate and no term, and no cell that could stand for them: skipped
RowInvalid ==
    [borrower |-> "carol", amount |-> 5000, interestRate |-> 0, term |-> 0,
     startDate |-> DayNumber(2023, 11, 23), endDate |-> NoDate, borrowerEmail |-> Empty,
     borrowerPhone |-> Empty, loanOfficer |-> Empty, status |-> Empty]

\* A readable .csv file whose header names every column
CsvFile(rows) ==
    [extension |-> "csv", readable |-> TRUE,
     headers |-> RequiredColumns \cup {"endDate", "borrowerEmail", "borrowerPhone",
                                       "loanOfficer", "status"},
     rows |-> rows]

FileAlice == CsvFile(<<RowAlice>>)
FileAliceNewPhone == CsvFile(<<RowAliceNewPhone>>)
FileBobTwice == CsvFile(<<RowBob, RowInvalid, RowBob>>)
FileInvalid == CsvFile(<<RowInvalid>>)

\* Files that fail as a whole: another extension, a failing read, a header
\* line alone, a header without the term column
FilePdf == [FileAlice EXCEPT !.extension = "pdf"]
FileUnreadable == [FileAlice EXCEPT !.readable = FALSE]
FileHeaderOnly == CsvFile(<<>>)
FileNoTerm == [FileAlice EXCEPT !.headers = @ \ {"term"}]

FailingFiles == {FilePdf, FileUnreadable, FileHeaderOnly, FileNoTerm, FileInvalid}

Files == {FileAlice, FileAliceNewPhone, FileBobTwice, FileInvalid}

\* Loans of a JSON export: one with a note and a logged email, one without
\* payment schedule, one without identifier
JsonLoanA ==
    WithOwner([NewLoanA EXCEPT
                  !.notes = <<[id |-> <<"note", LoanIdA, 1>>, content |-> "called"]>>,
                  !.communications =
                      <<[id |-> <<"comm", LoanIdA, NowStart>>, type |-> "email",
                         direction |-> "outbound", subject |-> "payment_reminder",
                         automated |-> TRUE, relatedPaymentId |-> <<>>,
                         relatedObligationId |-> <<>>]>>], User1)

JsonLoanB == WithOwner([NewLoanB EXCEPT !.paymentSchedule = <<>>], User1)

JsonLoanNoId == [JsonLoanB EXCEPT !.id = <<>>]

JsonFiles == {<<JsonLoanA>>, <<JsonLoanB, JsonLoanNoId, JsonLoanA>>, <<JsonLoanNoId>>}

JsonCalls ==
    {[file |-> f, user |-> User1] : f \in JsonFiles}
    \cup {[file |-> <<JsonLoanA>>, user |-> NoUser]}

\* The part of Date.now() below the clock's step
MsSet == {0, 1}

\* Calls of an import with files that fail and files that do not
FailureCalls ==
    {[file |-> f, user |-> User1, ms |-> 0] : f \in FailingFiles \cup {FileAlice, FileBobTwice}}

\* The calls of an import: a signed-in owner with any file, and a caller without identifier
ImportCalls ==
    {[file |-> f, user |-> User1, ms |-> ms] : f \in Files, ms \in MsSet}
    \cup {[file |-> FileAlice, user |-> NoUser, ms |-> 0]}

---------------------------------------------------------------------------
(* Specifications *)

\* The store's ledger: who may see, change and delete which loan
Next ==
    \/ \E u \in Users \cup {NoUser} : setCurrentUser(u)
    \/ \E loan \in NewLoans : Len(loans) < MaxLoans /\ loan.id \notin LoanIds /\ addLoan(loan)
    \/ \E id \in LoanIds, updates \in LoanUpdates : updateLoan(id, updates)
    \/ \E id \in LoanIds : deleteLoan(id)
    \/ \E id \in LoanIds, pid \in PaymentIds, u \in PaymentUpdates :
          updatePaymentStatus(id, pid, u.status, IF u.status = "paid" THEN todayISO(now) ELSE NoDate)
    \/ \E id \in LoanIds, oid \in ObligationIds :
          updateObligationStatus(id, oid, TRUE, todayISO(now))
    \/ Tick

Spec == Init /\ [][Next]_vars

\* The six store operations that change a loan, called by either user
ManualNote == [id |-> <<"note", 0>>, content |-> "called the borrower"]
ManualCommunication ==
    [id |-> <<>>, type |-> "phone", direction |-> "outbound", subject |-> "call",
     automated |-> FALSE, relatedPaymentId |-> <<>>, relatedObligationId |-> <<>>]

ContactUpdate == [borrowerPhone |-> "p2"]

NextOwner ==
    \/ \E u \in Users : setCurrentUser(u)
    \/ NewLoanA.id \notin LoanIds /\ addLoan(NewLoanA)
    \/ \E id \in LoanIds : updateLoan(id, ContactUpdate)
    \/ \E id \in LoanIds : deleteLoan(id)
    \/ \E id \in LoanIds, pid \in PaymentIds :
          updatePaymentStatus(id, pid, "paid", todayISO(now))
    \/ \E id \in LoanIds, oid \in ObligationIds :
          updateObligationStatus(id, oid, TRUE, todayISO(now))
    \/ \E id \in LoanIds :
          /\ \A i \in 1..Len(loans) : Len(loans[i].notes) < MaxComms
          /\ addNote(id, ManualNote)
    \/ \E id \in LoanIds :
          /\ \A i \in 1..Len(loans) : Len(loans[i].communications) < MaxComms
          /\ addCommunicationToLoan(id, ManualCommunication)

SpecOwner == Init /\ [][NextOwner]_vars

\* Owner-scoped storage: imports and clearAllData for owners whose identifiers
\* differ only in '@', '.' and '_'
User3 == <<"a", "_", "x">>
OwnerIds == Users \cup {User3}

NextKeys ==
    \/ \E u \in OwnerIds \cup {NoUser}, f \in {<<JsonLoanA>>, <<JsonLoanB>>} : importLoanData(f, u)
    \/ \E u \in OwnerIds : DateNowFresh(0) /\ importLoansFromFile(FileAlice, u, 0)
    \/ \E u \in OwnerIds \cup {NoUser} : clearAllData(u)

SpecKeys == Init /\ [][NextKeys]_vars

\* Two imports suspended at their file reads, interleaved with each other and
\* with mutations of the store, all for one owner
InterleavedCalls ==
    {[op |-> "importLoansFromFile", file |-> FileAlice, user |-> User1],
     [op |-> "importAndUpdateLoansFromFile", file |-> FileBobTwice, user |-> User1]}

InitInterleaved ==
    /\ timeZone = "UTC"
    /\ pending = {}
    /\ loans = <<>>
    /\ filters = defaultFilters
    /\ selectedLoanId = <<>>
    /\ alerts = <<>>
    /\ currentUserId = User1
    /\ localStorage = Persist([k \in StorageKeys |-> <<>>], loans, filters, currentUserId)
    /\ now = NowStart
    /\ lastOp = [op |-> "init"]
    /\ hist = [scanAt |-> NoDate, appended |-> <<>>]

NextInterleaved ==
    \/ \E c \in InterleavedCalls \ pending : StartImport(c.op, c.file, c.user)
    \/ \E c \in pending, ms \in MsSet :
          /\ c.op = "importLoansFromFile"
          /\ DateNowFresh(ms)
          /\ importLoansFromFile(c.file, c.user, ms)
    \/ \E c \in pending, ms \in MsSet :
          /\ c.op = "importAndUpdateLoansFromFile"
          /\ DateNowFresh(ms)
          /\ importAndUpdateLoansFromFile(c.file, c.user, ms)
    \/ Len(loans) < MaxLoans /\ NewLoanB.id \notin LoanIds /\ addLoan(NewLoanB)
    \/ \E id \in LoanIds, pid \in PaymentIds : updatePaymentStatus(id, pid, "paid", todayISO(now))
    \/ Tick

SpecInterleaved == InitInterleaved /\ [][NextInterleaved]_vars

\* Alert generation under the filters of the loan list
FilterChoices == {[status |-> {"paid_off"}], [borrowers |-> {"Alice"}]}

NextFilters ==
    \/ setCurrentUser(User1)
    \/ \E loan \in NewLoans : Len(loans) < MaxLoans /\ loan.id \notin LoanIds /\ addLoan(loan)
    \/ \E newFilters \in FilterChoices : setFilters(newFilters)
    \/ resetFilters
    \/ generateAlerts
    \/ \E id \in AlertIds : markAlertRead(id)

SpecFilters == Init /\ [][NextFilters]_vars

\* Selection and deletion by either user
NextSelect ==
    \/ \E u \in Users : setCurrentUser(u)
    \/ \E loan \in NewLoans : Len(loans) < MaxLoans /\ loan.id \notin LoanIds /\ addLoan(loan)
    \/ \E id \in LoanIds : setSelectedLoan(id)
    \/ \E id \in LoanIds : deleteLoan(id)
    \/ \E newFilters \in FilterChoices : setFilters(newFilters)
    \/ generateAlerts

SpecSelect == Init /\ [][NextSelect]_vars

\* Alert generation on one owner's ledger
NextAlerts ==
    \/ \E u \in {User1, NoUser} : setCurrentUser(u)
    \/ \E loan \in NewLoans : Len(loans) < MaxLoans /\ loan.id \notin LoanIds /\ addLoan(loan)
    \/ generateAlerts
    \/ \E id \in AlertIds : markAlertRead(id)
    \/ markAllAlertsRead
    \/ Tick

SpecAlerts == Init /\ [][NextAlerts]_vars

\* The append-only import on one owner's ledger, beside the store's own loans
NextImport ==
    \/ \E u \in {User1, NoUser} : setCurrentUser(u)
    \/ Len(loans) < MaxLoans /\ NewLoanA.id \notin LoanIds /\ addLoan(NewLoanA)
    \/ \E c \in ImportCalls : DateNowFresh(c.ms) /\ importLoansFromFile(c.file, c.user, c.ms)
    \/ Tick

SpecImport == Init /\ [][NextImport]_vars

\* Every operation that creates or changes a loan record
NextMutations ==
    \/ setCurrentUser(User1)
    \/ Len(loans) < MaxLoans /\ NewLoanA.id \notin LoanIds /\ addLoan(NewLoanA)
    \/ \E id \in LoanIds, updates \in LoanUpdates : updateLoan(id, updates)
    \/ \E id \in LoanIds, pid \in PaymentIds :
          updatePaymentStatus(id, pid, "overdue", NoDate)
    \/ \E id \in LoanIds, oid \in ObligationIds :
          updateObligationStatus(id, oid, TRUE, todayISO(now))
    \/ DateNowFresh(0) /\ importLoansFromFile(FileAliceNewPhone, User1, 0)
    \/ DateNowFresh(0) /\ importAndUpdateLoansFromFile(FileAliceNewPhone, User1, 0)
    \/ Tick

SpecMutations == Init /\ [][NextMutations]_vars

\* The reconciling import on a ledger a JSON import wrote
NextReconcile ==
    \/ \E c \in JsonCalls : importLoanData(c.file, c.user)
    \/ \E c \in ImportCalls : DateNowFresh(c.ms) /\ importAndUpdateLoansFromFile(c.file, c.user, c.ms)
    \/ Tick

SpecReconcile == Init /\ [][NextReconcile]_vars

\* The reconciling import on ledgers where one loan carries the candidate's
\* name and another its email, in either order, and where a loan is known by
\* its borrower identifier alone
MatchLoanName == [JsonLoanA EXCEPT !.borrowerEmail = "z@x", !.borrowerIdentifier = "z@x"]
MatchLoanEmail == [JsonLoanB EXCEPT !.borrowerEmail = "a@x", !.borrowerIdentifier = "a@x"]
MatchLoanIdentifier == [JsonLoanB EXCEPT !.borrower = "Al", !.borrowerIdentifier = "alice"]

MatchLedgers ==
    {<<MatchLoanName, MatchLoanEmail>>, <<MatchLoanEmail, MatchLoanName>>, <<MatchLoanIdentifier>>}

MatchFiles ==
    {FileAlice, CsvFile(<<[RowAlice EXCEPT !.borrowerEmail = Empty]>>), CsvFile(<<RowBob>>),
     FileAliceNewPhone}

NextMatch ==
    \/ \E ledger \in MatchLedgers : importLoanData(ledger, User1)
    \/ \E file \in MatchFiles :
          DateNowFresh(0) /\ importAndUpdateLoansFromFile(file, User1, 0)
    \/ Tick

SpecMatch == Init /\ [][NextMatch]_vars

\* The reconciling import on a ledger that holds a loan whose email is no
\* string (a JSON document edited by hand), so that matching by email throws
JsonLoanBadEmail == [JsonLoanB EXCEPT !.borrowerEmail = NotAString]

BatchLedgers == {<<JsonLoanBadEmail>>, <<JsonLoanB>>}

RowBobPhone == [RowBob EXCEPT !.borrowerPhone = "p2"]

BatchFiles ==
    {CsvFile(<<RowBob, RowAlice, RowBobPhone>>), CsvFile(<<RowAlice, RowBobPhone>>),
     CsvFile(<<RowBob, RowInvalid, RowAlice>>)}

NextBatch ==
    \/ \E ledger \in BatchLedgers : importLoanData(ledger, User1)
    \/ \E file \in BatchFiles :
          DateNowFresh(0) /\ importAndUpdateLoansFromFile(file, User1, 0)
    \/ Tick

SpecBatch == Init /\ [][NextBatch]_vars

\* Both imports with rows the parser has to judge: a negative amount, no date
\* cell at all, no rate and no term
RowNegative == [RowBob EXCEPT !.amount = -5000]
RowNoDate == [RowAlice EXCEPT !.startDate = NoDate]

ParseFiles ==
    {CsvFile(<<RowNegative, RowBob>>), CsvFile(<<RowInvalid, RowAlice>>), CsvFile(<<RowNoDate>>),
     FileAlice}

NextParse ==
    \/ \E file \in ParseFiles, ms \in MsSet :
          DateNowFresh(ms) /\ importLoansFromFile(file, User1, ms)
    \/ \E file \in ParseFiles, ms \in MsSet :
          DateNowFresh(ms) /\ importAndUpdateLoansFromFile(file, User1, ms)
    \/ Tick

SpecParse == Init /\ [][NextParse]_vars

\* Both imports with files that fail as a whole, on a ledger that holds loans and alerts
NextFailure ==
    \/ setCurrentUser(User1)
    \/ Len(loans) < MaxLoans /\ NewLoanA.id \notin LoanIds /\ addLoan(NewLoanA)
    \/ \E c \in FailureCalls : DateNowFresh(c.ms) /\ importLoansFromFile(c.file, c.user, c.ms)
    \/ \E c \in FailureCalls : DateNowFresh(c.ms) /\ importAndUpdateLoansFromFile(c.file, c.user, c.ms)
    \/ Tick

SpecFailure == Init /\ [][NextFailure]_vars

\* Imports that may run within one millisecond of each other: two calls
\* started together read their files and then run one after the other
ConcurrentCalls ==
    {[file |-> f, user |-> User1, ms |-> ms] : f \in {FileAlice, FileBobTwice}, ms \in MsSet}

NextConcurrent ==
    \/ \E c \in ConcurrentCalls : importLoansFromFile(c.file, c.user, c.ms)
    \/ \E c \in ConcurrentCalls : importAndUpdateLoansFromFile(c.file, c.user, c.ms)
    \/ Tick

SpecConcurrent == Init /\ [][NextConcurrent]_vars

\* Imports that may run within one millisecond of each other, for the current
\* user: every import ends with generateAlerts()
SpecAlertIds == InitInterleaved /\ [][NextConcurrent]_vars

\* Export of one owner's record and import of the document by an owner
\* without record
NextRoundTrip ==
    \/ \E c \in JsonCalls : importLoanData(c.file, c.user)
    \/ \E f \in {FileAliceNewPhone, FileBobTwice} :
          DateNowFresh(0) /\ importAndUpdateLoansFromFile(f, User1, 0)
    \/ \E i \in 1..Len(exportLoanData(localStorage, User1, now)) :
          /\ StoredLoans(localStorage, getUserStorageKey(User2)) = <<>>
          /\ importLoanData(LoansOfDocument(exportLoanData(localStorage, User1, now)[i]), User2)
    \/ Tick

SpecRoundTrip == Init /\ [][NextRoundTrip]_vars

---------------------------------------------------------------------------
(* StatusDeriver on its own: every schedule of up to MaxTerm payments *)

PaymentStatuses == {"pending", "paid", "overdue", "partial"}

\* Due dates of the payments of a drawn loan: within the week, or well after it
StatusDueDates == {DayNumber(2024, 0, 27), DayNumber(2024, 2, 4)}

\* Obligations of a drawn loan: none, one incomplete (due before or after
\* NowStart), one completed
StatusObligations ==
    {<<>>}
    \cup {<<[id |-> <<"obl", LoanIdA, 1>>, dueDate |-> d, completed |-> c, completedDate |-> NoDate]>> :
             d \in {DayNumber(2024, 0, 23), DayNumber(2024, 1, 23)}, c \in BOOLEAN}

\* A loan with the payment statuses st, every payment due on `due`
StatusLoan(st, due, end, obligations) ==
    [NewLoanA EXCEPT
        !.term = Len(st),
        !.endDate = end,
        !.obligations = obligations,
        !.paymentSchedule = [i \in 1..Len(st) |-> [id |-> <<"payment", LoanIdA, i>>, dueDate |-> due,
                                                   status |-> st[i], paidDate |-> NoDate]]]

StatusLoans ==
    {StatusLoan(st, due, end, obligations) :
        st \in UNION {[1..k -> PaymentStatuses] : k \in 0..MaxTerm},
        due \in StatusDueDates,
        end \in {DayNumber(2024, 0, 27), DayNumber(2025, 0, 27)},
        obligations \in StatusObligations}

\* A store rehydrated with one loan of the signed-in owner, enriched when it was stored
InitStatus ==
    /\ timeZone = "UTC"
    /\ pending = {}
    /\ \E loan \in StatusLoans : loans = <<enrichLoan(WithOwner(loan, User1), NowStart)>>
    /\ filters = defaultFilters
    /\ selectedLoanId = <<>>
    /\ alerts = <<>>
    /\ currentUserId = User1
    /\ localStorage = Persist([k \in StorageKeys |-> <<>>], loans, filters, currentUserId)
    /\ now = NowStart
    /\ lastOp = [op |-> "init"]
    /\ hist = [scanAt |-> NoDate, appended |-> <<>>]

NextStatus ==
    \/ \E id \in LoanIds, updates \in LoanUpdates : updateLoan(id, updates)
    \/ \E id \in LoanIds, oid \in ObligationIds : updateObligationStatus(id, oid, TRUE, todayISO(now))
    \/ Tick

SpecStatus == InitStatus /\ [][NextStatus]_vars

---------------------------------------------------------------------------
(* RiskScorer on its own: schedules and obligations of every mix, end dates   *)
(* long past, just past, near, far and missing                                *)

RiskEndDates ==
    {DayNumber(2023, 8, 26), DayNumber(2024, 0, 14), DayNumber(2024, 1, 23),
     DayNumber(2025, 0, 27), NoDate}

RiskLoans ==
    {StatusLoan(st, DayNumber(2024, 0, 27), end, obligations) :
        st \in UNION {[1..k -> {"pending", "paid", "overdue"}] : k \in 0..MaxTerm},
        end \in RiskEndDates,
        obligations \in StatusObligations}

InitRisk ==
    /\ timeZone = "UTC"
    /\ pending = {}
    /\ \E loan \in RiskLoans : loans = <<enrichLoan(WithOwner(loan, User1), NowStart)>>
    /\ filters = defaultFilters
    /\ selectedLoanId = <<>>
    /\ alerts = <<>>
    /\ currentUserId = User1
    /\ localStorage = Persist([k \in StorageKeys |-> <<>>], loans, filters, currentUserId)
    /\ now = NowStart
    /\ lastOp = [op |-> "init"]
    /\ hist = [scanAt |-> NoDate, appended |-> <<>>]

NextRisk ==
    \/ \E id \in LoanIds, updates \in LoanUpdates : updateLoan(id, updates)
    \/ \E id \in LoanIds, oid \in ObligationIds : updateObligationStatus(id, oid, TRUE, todayISO(now))
    \/ Tick

SpecRisk == InitRisk /\ [][NextRisk]_vars

---------------------------------------------------------------------------
(* AlertGenerator on its own: payments and obligations due before, at and     *)
(* after every threshold of the scan                                          *)

ScanPaymentDueDates ==
    {DayNumber(2024, 0, 24), DayNumber(2024, 0, 27), DayNumber(2024, 0, 28),
     DayNumber(2024, 1, 1)}

ScanObligations ==
    {<<>>}
    \cup {<<[id |-> <<"obl", LoanIdA, 1>>, dueDate |-> d, completed |-> c, completedDate |-> NoDate]>> :
             d \in {DayNumber(2024, 0, 22), DayNumber(2024, 0, 31), DayNumber(2024, 1, 1),
                    DayNumber(2024, 1, 8)},
             c \in BOOLEAN}

ScanLoans ==
    {StatusLoan(st, due, end, obligations) :
        st \in UNION {[1..k -> {"pending", "paid"}] : k \in 0..MaxTerm},
        due \in ScanPaymentDueDates,
        end \in {DayNumber(2024, 1, 23), DayNumber(2025, 0, 27)},
        obligations \in ScanObligations}

InitScan ==
    /\ timeZone = "UTC"
    /\ pending = {}
    /\ \E loan \in ScanLoans : loans = <<enrichLoan(WithOwner(loan, User1), NowStart)>>
    /\ filters = defaultFilters
    /\ selectedLoanId = <<>>
    /\ alerts = <<>>
    /\ currentUserId = User1
    /\ localStorage = Persist([k \in StorageKeys |-> <<>>], loans, filters, currentUserId)
    /\ now = NowStart
    /\ lastOp = [op |-> "init"]
    /\ hist = [scanAt |-> NoDate, appended |-> <<>>]

NextScan ==
    \/ generateAlerts
    \/ Tick

SpecScan == InitScan /\ [][NextScan]_vars

---------------------------------------------------------------------------
(* The new-loan form: handleSubmit builds the loan, draws its schedule and    *)
(* hands it to addLoan; the term is edited afterwards through updateLoan      *)

FormAmounts == {100, 1200}
FormRates == {0, 12, 24}
FormStartDates == {DayNumber(2023, 11, 31), DayNumber(2024, 0, 24)}

FormData ==
    [borrower : {"Alice"}, amount : FormAmounts, interestRate : FormRates,
     term : 1..MaxTerm, startDate : FormStartDates]

handleSubmit(formData, ms) ==
    LET id == <<"loan", Stamp(now, ms), 0>>
    IN addLoan([id |-> id, borrower |-> formData.borrower, amount |-> formData.amount,
                interestRate |-> formData.interestRate, term |-> formData.term,
                startDate |-> formData.startDate,
                endDate |-> calculateEndDate(formData.startDate, formData.term),
                status |-> "on_track",
                paymentSchedule |-> generatePaymentSchedule(
                    [id |-> id, amount |-> formData.amount,
                     interestRate |-> formData.interestRate, term |-> formData.term,
                     startDate |-> formData.startDate]),
                obligations |-> <<>>, notes |-> <<>>, communications |-> <<>>,
                riskScore |-> 50 * RiskScale,
                borrowerEmail |-> Empty, borrowerPhone |-> Empty, loanOfficer |-> Empty])

InitForm ==
    /\ timeZone = "UTC"
    /\ pending = {}
    /\ loans = <<>>
    /\ filters = defaultFilters
    /\ selectedLoanId = <<>>
    /\ alerts = <<>>
    /\ currentUserId = User1
    /\ localStorage = Persist([k \in StorageKeys |-> <<>>], loans, filters, currentUserId)
    /\ now = NowStart
    /\ lastOp = [op |-> "init"]
    /\ hist = [scanAt |-> NoDate, appended |-> <<>>]

NextForm ==
    \/ \E formData \in FormData, ms \in MsSet : loans = <<>> /\ handleSubmit(formData, ms)
    \/ \E id \in LoanIds, updates \in TermUpdates : updateLoan(id, updates)
    \/ \E id \in LoanIds : deleteLoan(id)
    \/ Tick

SpecForm == InitForm /\ [][NextForm]_vars

\* The form submitted in either zone with start dates at the end and at the
\* beginning of a month
DueStartDates ==
    {DayNumber(2023, 11, 31), DayNumber(2024, 0, 31), DayNumber(2024, 2, 1), DayNumber(2024, 0, 15)}

DueForms ==
    [borrower : {"Alice"}, amount : {1200}, interestRate : {12},
     term : 1..MaxTerm, startDate : DueStartDates]

InitDue ==
    /\ timeZone \in TimeZones
    /\ pending = {}
    /\ loans = <<>>
    /\ filters = defaultFilters
    /\ selectedLoanId = <<>>
    /\ alerts = <<>>
    /\ currentUserId = User1
    /\ localStorage = Persist([k \in StorageKeys |-> <<>>], loans, filters, currentUserId)
    /\ now = NowStart
    /\ lastOp = [op |-> "init"]
    /\ hist = [scanAt |-> NoDate, appended |-> <<>>]

NextDue ==
    \/ \E formData \in DueForms, ms \in MsSet : loans = <<>> /\ handleSubmit(formData, ms)
    \/ \E id \in LoanIds : deleteLoan(id)
    \/ Tick

SpecDue == InitDue /\ [][NextDue]_vars

\* Loans entered through the form, scanned for alerts as time passes; a loan
\* started on 2024-01-01 has its first payment due 2024-02-01, eight days
\* after the clock's start
RecalcStartDates == {DayNumber(2024, 0, 1), DayNumber(2024, 0, 24)}

RecalcForms ==
    [borrower : {"Alice"}, amount : {1200}, interestRate : {12},
     term : 1..MaxTerm, startDate : RecalcStartDates]

NextRecalc ==
    \/ \E formData \in RecalcForms, ms \in MsSet :
          /\ Len(loans) < MaxLoans
          /\ <<"loan", Stamp(now, ms), 0>> \notin LoanIds
          /\ handleSubmit(formData, ms)
    \/ generateAlerts
    \/ Tick

SpecRecalc == InitForm /\ [][NextRecalc]_vars

---------------------------------------------------------------------------
(* Properties *)

Range(seq) == {seq[i] : i \in 1..Len(seq)}

\* The derived fields of l are the ones enrichment computes at instant t
Derived(l, t) ==
    /\ l.status = determineLoanStatus(l, t)
    /\ l.riskScore = calculateRiskScore(l, t)

\* The record stored under the owner's key
Ledger(ls, userIdentifier) == StoredLoans(ls, getUserStorageKey(userIdentifier))

\* C1: right after addLoan, updateLoan, updatePaymentStatus,
\* updateObligationStatus, importLoansFromFile and importAndUpdateLoansFromFile,
\* every loan the operation created or changed carries the status
\* determineLoanStatus derives from its schedule and obligations and the risk
\* score calculateRiskScore derives from the loan with that status, in the
\* store and in the record the import wrote; so a supplied status or risk
\* score is stored only when it equals the derived one.
C1_DerivedAfterMutation ==
    [][/\ lastOp'.op = "addLoan" => Derived(loans'[Len(loans')], now')
       /\ lastOp'.op \in {"updateLoan", "updatePaymentStatus", "updateObligationStatus"} =>
             \A i \in 1..Len(loans') : loans'[i] # loans[i] => Derived(loans'[i], now')
       /\ (lastOp'.op = "importLoansFromFile" /\ lastOp'.ok) =>
             LET written == Ledger(localStorage', lastOp'.user)
             IN /\ Len(loans') = Len(written)
                /\ \A i \in 1..Len(written) :
                      i > Len(written) - lastOp'.imported =>
                          Derived(written[i], now') /\ Derived(loans'[i], now')
       /\ (lastOp'.op = "importAndUpdateLoansFromFile" /\ lastOp'.ok) =>
             LET written == Ledger(localStorage', lastOp'.user)
             IN /\ Len(loans') = Len(written)
                /\ \A i \in lastOp'.written :
                      Derived(written[i], now') /\ Derived(loans'[i], now')
      ]_vars

\* C1 witness: updateLoan was handed status paid_off and riskScore 0 and the
\* loan it changed holds neither
C1_Witness ==
    /\ lastOp.op = "updateLoan"
    /\ \E i \in 1..Len(loans) :
          /\ loans[i].id = lastOp.loanId
          /\ loans[i].status # "paid_off"
          /\ loans[i].riskScore # 0

\* The rules of the status derivation, first match first, stated on their own
StatusByPriority(l, t) ==
    LET sched == l.paymentSchedule
        overdue == {i \in 1..Len(sched) : sched[i].status = "overdue"}
        pendingSoon == {i \in 1..Len(sched) :
                           sched[i].status = "pending" /\ isWithinDays(sched[i].dueDate, 7, t)}
        latePromises == {j \in 1..Len(l.obligations) :
                            ~l.obligations[j].completed /\ 2 * l.obligations[j].dueDate < t}
    IN CASE Cardinality(overdue) >= 3 -> "defaulted"
         [] Cardinality(overdue) < 3 /\ (\A i \in 1..Len(sched) : sched[i].status = "paid") -> "paid_off"
         [] Cardinality(overdue) \in 1..2 -> "overdue"
         [] overdue = {} /\ (\E i \in 1..Len(sched) : sched[i].status # "paid")
               /\ (pendingSoon # {} \/ latePromises # {}) -> "at_risk"
         [] OTHER -> "on_track"

\* C2: determineLoanStatus returns the first rule that matches, in the order
\* defaulted (3 or more overdue payments), paid_off (every payment paid),
\* overdue (an overdue payment), at_risk (a pending payment due within 7 days,
\* or an incomplete obligation due before now), else on_track; 3 overdue
\* payments give defaulted and an all-paid schedule gives paid_off whatever the
\* obligations and the maturity are; an enrichment stores that status.
C2_StatusPriority ==
    \A i \in 1..Len(loans) :
        LET l == loans[i]
            sched == l.paymentSchedule
        IN /\ determineLoanStatus(l, now) = StatusByPriority(l, now)
           /\ Cardinality({k \in 1..Len(sched) : sched[k].status = "overdue"}) >= 3 =>
                  determineLoanStatus(l, now) = "defaulted"
           /\ (\A k \in 1..Len(sched) : sched[k].status = "paid") =>
                  determineLoanStatus(l, now) = "paid_off"
           /\ lastOp.op \in {"init", "updateLoan", "updateObligationStatus"} =>
                  l.status = StatusByPriority(l, now)

\* C2 witness: three overdue payments, next to an incomplete obligation that
\* is past due, stored as defaulted by an update that supplied paid_off
C2_Witness ==
    /\ lastOp.op = "updateLoan"
    /\ \E i \in 1..Len(loans) :
          /\ Cardinality({k \in 1..Len(loans[i].paymentSchedule) :
                             loans[i].paymentSchedule[k].status = "overdue"}) >= 3
          /\ \E j \in 1..Len(loans[i].obligations) :
                ~loans[i].obligations[j].completed /\ isDatePast(loans[i].obligations[j].dueDate, now)
          /\ loans[i].status = "defaulted"

IdsOf(as) == {as[i].id : i \in 1..Len(as)}

\* C3: a generateAlerts that follows a generateAlerts with nothing but
\* markAlertRead / markAllAlertsRead between them (same loans, same clock)
\* leaves the set of alert identifiers as it was, and every alert that was
\* read before it is read in the alert set it stores.
C3_AlertIdempotence ==
    [][(lastOp'.op = "generateAlerts" /\ lastOp'.again) =>
          /\ IdsOf(alerts') = IdsOf(alerts)
          /\ \A i \in 1..Len(alerts), j \in 1..Len(alerts') :
                (alerts[i].read /\ alerts'[j].id = alerts[i].id) => alerts'[j].read
      ]_vars

\* C3 witness: a regeneration at the same instant whose alert set holds a read alert
C3_Witness ==
    /\ lastOp.op = "generateAlerts"
    /\ lastOp.again
    /\ \E i \in 1..Len(alerts) : alerts[i].read

IsPrefix(s, t) == Len(s) <= Len(t) /\ \A i \in 1..Len(s) : s[i] = t[i]

\* C4 as stated: generateAlerts leaves every field of every loan, the
\* communications and the notes included, as it was.
C4_LoansUnchanged ==
    [][lastOp'.op = "generateAlerts" => loans' = loans]_vars

\* C4 amended: generateAlerts keeps the loans in place and every field of
\* every loan but communications, to which it only appends automated outbound
\* emails.
C4_OnlyCommunicationsGrow ==
    [][lastOp'.op = "generateAlerts" =>
          /\ Len(loans') = Len(loans)
          /\ \A i \in 1..Len(loans) :
                /\ [loans'[i] EXCEPT !.communications = loans[i].communications] = loans[i]
                /\ IsPrefix(loans[i].communications, loans'[i].communications)
                /\ \A k \in (Len(loans[i].communications) + 1)..Len(loans'[i].communications) :
                      /\ loans'[i].communications[k].automated
                      /\ loans'[i].communications[k].type = "email"
                      /\ loans'[i].communications[k].direction = "outbound"
      ]_vars

\* C4 witness: generateAlerts ran and a loan holds a communication it logged
C4_Witness ==
    /\ lastOp.op = "generateAlerts"
    /\ \E i \in 1..Len(loans) :
          \E k \in 1..Len(loans[i].communications) : loans[i].communications[k].automated

\* C5 as stated: no loan holds two automated notifications of one kind for
\* one payment or obligation, however often generateAlerts ran.
C5_OneNotificationPerSource ==
    \A i \in 1..Len(loans) :
        \A j, k \in 1..Len(loans[i].communications) :
            LET a == loans[i].communications[j]
                b == loans[i].communications[k]
            IN (j < k /\ a.automated /\ b.automated) =>
                   ~(/\ a.subject = b.subject
                     /\ a.relatedPaymentId = b.relatedPaymentId
                     /\ a.relatedObligationId = b.relatedObligationId)

\* C6 as stated: deleteLoan(loanId) removes the loan with that identifier
\* exactly when its managedBy is the current user; when the current user is
\* not the owner, or no user is set, the loan stays; no other loan is removed.
C6_DeleteOnlyByOwner ==
    [][lastOp'.op = "deleteLoan" =>
          \A i \in 1..Len(loans) :
              LET gone == loans[i] \notin Range(loans')
              IN IF loans[i].id = lastOp'.loanId
                 THEN /\ gone <=> loans[i].managedBy = currentUserId
                      /\ (currentUserId = NoUser \/ loans[i].managedBy # currentUserId) => ~gone
                 ELSE ~gone
      ]_vars

\* C7 as stated: with no current user set no ledger is visible: getLoans and
\* getFilteredLoans are empty, getLoan finds no loan under any identifier, and
\* the alert scan and getPortfolioStats report nothing.
C7_NoUserNoLedger ==
    currentUserId = NoUser =>
        /\ getLoans = <<>>
        /\ getFilteredLoans = <<>>
        /\ \A id \in LoanIds : getLoan(id) = <<>>
        /\ ScanAlerts(getFilteredLoans, now) = <<>>
        /\ getPortfolioStats.totalLoans = 0

\* The fields a matching candidate may overwrite, as text and as numbers or dates
TextFields == {"borrower", "borrowerEmail", "borrowerPhone", "loanOfficer"}
NumberFields == {"amount", "interestRate", "term", "startDate", "endDate"}

\* C8: when a candidate of a file matches a loan of the owner's ledger, the
\* record the reconciling import writes in its place keeps the loan's
\* identifier, managedBy, payment schedule (when it has payments),
\* obligations, notes and communications, and holds for borrower, amount,
\* interestRate, term, startDate, endDate, borrowerEmail, borrowerPhone and
\* loanOfficer the candidate's value when that is non-empty, else the loan's.
C8_MergeKeepsIdentity ==
    \A file \in Files :
        LET existing == Ledger(localStorage, User1)
            candidates == parseCSV(file, now, 0).loans
        IN \A k \in 1..Len(candidates) :
               LET match == matchExistingLoan(candidates[k], existing)
               IN match # <<>> =>
                      LET acc == ProcessImportLoan([loans |-> existing, updated |-> <<>>,
                                                    created |-> <<>>, written |-> {}, errors |-> <<>>, failed |-> {}, pos |-> 0],
                                                   candidates[k], User1, now)
                          old == match[1]
                          new == acc.loans[CHOOSE i \in acc.written : TRUE]
                      IN /\ Len(acc.loans) = Len(existing)
                         /\ new.id = old.id
                         /\ new.managedBy = old.managedBy
                         /\ old.paymentSchedule # <<>> => new.paymentSchedule = old.paymentSchedule
                         /\ new.obligations = old.obligations
                         /\ new.notes = old.notes
                         /\ new.communications = old.communications
                         /\ \A f \in TextFields :
                               new[f] = IF candidates[k][f] # Empty THEN candidates[k][f] ELSE old[f]
                         /\ \A f \in NumberFields :
                               new[f] = IF candidates[k][f] \notin {0, NoDate}
                                        THEN candidates[k][f] ELSE old[f]

\* C8 witness: a reconciling import updated a loan that now holds the
\* candidate's phone and amount and still its one-payment schedule, its note
\* and its logged email
C8_Witness ==
    /\ lastOp.op = "importAndUpdateLoansFromFile"
    /\ lastOp.ok
    /\ \E i \in lastOp.written :
          LET l == Ledger(localStorage, User1)[i]
          IN /\ l.id \in Range(lastOp.updated)
             /\ l.borrowerPhone = "p2"
             /\ l.borrowerEmail = "A@X"
             /\ l.amount = 2000
             /\ l.term = 2
             /\ Len(l.paymentSchedule) = 1
             /\ Len(l.notes) = 1
             /\ Len(l.communications) = 1

\* C9 as stated: an append-only import of the file the previous append-only
\* import of the same owner read (only the clock moved between them) reports
\* imported = 0 and skipped = the number of parsed rows, and leaves the number
\* of loans of the ledger as it was.
C9_SecondImportAddsNothing ==
    [][(lastOp'.op = "importLoansFromFile" /\ lastOp'.ok /\ hist.appended = hist'.appended) =>
          /\ lastOp'.imported = 0
          /\ lastOp'.skipped = lastOp'.parsed
          /\ Len(Ledger(localStorage', lastOp'.user)) = Len(Ledger(localStorage, lastOp'.user))
      ]_vars

\* C10 as stated: importLoansFromFile only adds: every loan of the owner in
\* the store's list, and every loan of the owner's persisted record, is there
\* unchanged afterwards; what is appended repeats no identifier and no
\* (normalized borrower, amount, startDate) key of the ledger or of another
\* appended row, and every other parsed row is counted as skipped.
C10_AppendOnlyKeepsLedger ==
    [][(lastOp'.op = "importLoansFromFile" /\ lastOp'.ok) =>
          LET before == Ledger(localStorage, lastOp'.user)
              after == Ledger(localStorage', lastOp'.user)
          IN /\ \A i \in 1..Len(loans) :
                    loans[i].managedBy = lastOp'.user => loans[i] \in Range(loans')
             /\ IsPrefix(before, after)
             /\ Len(after) = Len(before) + lastOp'.imported
             /\ lastOp'.skipped = lastOp'.parsed - lastOp'.imported
             /\ \A i \in (Len(before) + 1)..Len(after), j \in 1..Len(after) :
                    j < i => after[j].id # after[i].id /\ LoanKey(after[j]) # LoanKey(after[i])
      ]_vars

\* What makes an import fail as a whole: an extension other than csv, a
\* failing read, no data row, a required column missing, no valid row
FailsCompletely(file) ==
    \/ file.extension # "csv"
    \/ ~file.readable
    \/ Len(file.rows) < 1
    \/ ~(RequiredColumns \subseteq file.headers)
    \/ \A i \in 1..Len(file.rows) : ParseRow(file.rows[i], i, now, 0) = <<>>

\* C11: a step of importLoansFromFile or importAndUpdateLoansFromFile with a
\* file that fails as a whole changes neither the store's loans and alerts
\* nor any record of localStorage.
C11_FailedImportLeavesLedger ==
    [][(lastOp'.op \in {"importLoansFromFile", "importAndUpdateLoansFromFile"}
        /\ FailsCompletely(lastOp'.file)) =>
          /\ ~lastOp'.ok
          /\ loans' = loans
          /\ alerts' = alerts
          /\ localStorage' = localStorage
      ]_vars

\* C11 witness: a reconciling import of a file without term column was
\* rejected while the store held loans and alerts and the owner a record
C11_Witness ==
    /\ lastOp.op = "importAndUpdateLoansFromFile"
    /\ lastOp.file = FileNoTerm
    /\ ~lastOp.ok
    /\ loans # <<>>
    /\ alerts # <<>>
    /\ Ledger(localStorage, User1) # <<>>

IdsDistinct(ls) == \A i, j \in 1..Len(ls) : i # j => ls[i].id # ls[j].id

\* C12 as stated: in every reachable state the loans of the store and the
\* loans of every stored record have pairwise distinct identifiers, whichever
\* imports ran and however close in time.
C12_LoanIdsDistinct ==
    /\ IdsDistinct(loans)
    /\ \A key \in StorageKeys : IdsDistinct(StoredLoans(localStorage, key))

\* C13: when the owner without loans imports the document exportLoanData
\* makes of another owner's record, the record written holds as many loans
\* as the document, in its order, each with the borrower, amount,
\* interestRate, term and payment schedule of the exported loan.
C13_ExportImportRoundTrip ==
    [][(/\ lastOp'.op = "importLoanData"
        /\ lastOp'.user = User2
        /\ exportLoanData(localStorage, User1, now) # <<>>
        /\ lastOp'.file = LoansOfDocument(exportLoanData(localStorage, User1, now)[1])) =>
          LET document == exportLoanData(localStorage, User1, now)[1]
              got == Ledger(localStorage', User2)
          IN /\ lastOp'.ok
             /\ Len(got) = document.loanCount
             /\ \A i \in 1..Len(got) :
                   \A f \in {"borrower", "amount", "interestRate", "term", "paymentSchedule"} :
                       got[i][f] = document.loans[i][f]
      ]_vars

\* C13 witness: the second owner's record holds two imported loans, one
\* with an empty schedule and one whose schedule has a payment
C13_Witness ==
    /\ lastOp.op = "importLoanData"
    /\ lastOp.user = User2
    /\ lastOp.ok
    /\ Len(Ledger(localStorage, User2)) = 2
    /\ \E i, j \in 1..2 :
          /\ Ledger(localStorage, User2)[i].paymentSchedule = <<>>
          /\ Ledger(localStorage, User2)[j].paymentSchedule # <<>>
          /\ Ledger(localStorage, User2)[j].borrower = Ledger(localStorage, User1)[j].borrower

\* C14: for every loan, at every clock value, calculateRiskScore lies between 0
\* and 100, and so does the risk score every enrichment stored.
C14_RiskScoreBounds ==
    \A i \in 1..Len(loans) :
        /\ calculateRiskScore(loans[i], now) >= 0
        /\ calculateRiskScore(loans[i], now) <= 100 * RiskScale
        /\ loans[i].riskScore >= 0
        /\ loans[i].riskScore <= 100 * RiskScale

\* C14 witness: the terms of a loan add up to more than 100 and the score
\* an update stored for it is 100
C14_Witness ==
    /\ lastOp.op = "updateLoan"
    /\ \E i \in 1..Len(loans) :
          /\ riskScoreSum(loans[i], now) > 100 * RiskScale
          /\ loans[i].riskScore = 100 * RiskScale

\* C19 as stated: the maturity term of the risk score of every loan is at
\* most 20, however long ago the loan matured.
C19_MaturityTermAtMost20 ==
    \A i \in 1..Len(loans) : maturityRisk(loans[i], now) <= 20 * RiskScale

\* C15: for a principal P > 0, an annual rate r >= 0 and a term n >= 1 the
\* generated schedule has exactly n payments, every payment carries the same
\* amount, and the principal portions sum to P within a tolerance of 0.01
RECURSIVE SumPrincipal(_)
SumPrincipal(schedule) ==
    IF schedule = <<>> THEN FracOfInt(0)
    ELSE FracAdd(Head(schedule).principalAmount, SumPrincipal(Tail(schedule)))

FracLess(a, b) == a.num * b.den < b.num * a.den

WithinCent(a, b) ==
    LET d == FracSub(a, b)
    IN FracLess([num |-> Abs(d.num), den |-> d.den], Frac(1, 100))

ScheduleAmortizes(loan) ==
    /\ Len(loan.paymentSchedule) = loan.term
    /\ \A j \in 1..Len(loan.paymentSchedule) :
           loan.paymentSchedule[j].amount = loan.paymentSchedule[1].amount
    /\ WithinCent(SumPrincipal(loan.paymentSchedule), FracOfInt(loan.amount))

C16_OnTrackAllOnTime ==
    \A i \in 1..Len(loans) :
        determineLoanStatus(loans[i], now) = "on_track" =>
            /\ \A j \in 1..Len(loans[i].paymentSchedule) :
                   ~(/\ isDatePast(loans[i].paymentSchedule[j].dueDate, now)
                     /\ loans[i].paymentSchedule[j].status # "paid")
            /\ \A j \in 1..Len(loans[i].obligations) :
                   ~(/\ ~loans[i].obligations[j].completed
                     /\ isDatePast(loans[i].obligations[j].dueDate, now))

\* C17: loan status is recalculated whenever alerts are generated: right after
\* generateAlerts the stored status of every managed loan equals
\* determineLoanStatus of its schedule and obligations at the current clock,
\* also when the clock has advanced since the loan was last changed
C17_StatusFreshAfterAlerts ==
    lastOp.op = "generateAlerts" =>
        \A i \in 1..Len(loans) :
            loans[i].managedBy = currentUserId =>
                loans[i].status = determineLoanStatus(loans[i], now)

\* C18: the alert set generateAlerts produces for the managed loans and the
\* clock is exactly: per pending payment payment_overdue/high when daysUntil < 0,
\* payment_due when 0 <= daysUntil <= 7 (medium when daysUntil <= 3, else low);
\* per incomplete obligation obligation_due/high when daysUntil < 0,
\* obligation_due when 0 <= daysUntil <= 14 (medium when daysUntil <= 7, else
\* low); per loan risk_warning when riskScore > 70 (critical when > 85, else
\* high); nothing else, and nothing for paid payments or completed obligations.
\* daysUntil is the time from the clock to the due date in days, rounded up.
DaysUntilDue(date) ==
    CHOOSE d \in -800..800 : 2 * d >= 2 * date - now /\ 2 * (d - 1) < 2 * date - now

ExpectedPaymentAlerts(l) ==
    LET pendingPayments == {l.paymentSchedule[j] : j \in {k \in 1..Len(l.paymentSchedule) :
                                                   l.paymentSchedule[k].status = "pending"}}
    IN {<<<<"alert", l.id, p.id, "overdue">>, l.id, "payment_overdue", "high">> :
           p \in {q \in pendingPayments : DaysUntilDue(q.dueDate) < 0}}
       \cup {<<<<"alert", l.id, p.id, "due">>, l.id, "payment_due", "medium">> :
           p \in {q \in pendingPayments : DaysUntilDue(q.dueDate) >= 0 /\ DaysUntilDue(q.dueDate) <= 3}}
       \cup {<<<<"alert", l.id, p.id, "due">>, l.id, "payment_due", "low">> :
           p \in {q \in pendingPayments : DaysUntilDue(q.dueDate) > 3 /\ DaysUntilDue(q.dueDate) <= 7}}

ExpectedObligationAlerts(l) ==
    LET incomplete == {l.obligations[j] : j \in {k \in 1..Len(l.obligations) :
                                                   ~l.obligations[k].completed}}
    IN {<<<<"alert", l.id, o.id, "overdue">>, l.id, "obligation_due", "high">> :
           o \in {q \in incomplete : DaysUntilDue(q.dueDate) < 0}}
       \cup {<<<<"alert", l.id, o.id, "due">>, l.id, "obligation_due", "medium">> :
           o \in {q \in incomplete : DaysUntilDue(q.dueDate) >= 0 /\ DaysUntilDue(q.dueDate) <= 7}}
       \cup {<<<<"alert", l.id, o.id, "due">>, l.id, "obligation_due", "low">> :
           o \in {q \in incomplete : DaysUntilDue(q.dueDate) > 7 /\ DaysUntilDue(q.dueDate) <= 14}}

ExpectedRiskAlerts(l) ==
    IF l.riskScore > 85 * RiskScale
    THEN {<<<<"alert", l.id, "risk">>, l.id, "risk_warning", "critical">>}
    ELSE IF l.riskScore > 70 * RiskScale
    THEN {<<<<"alert", l.id, "risk">>, l.id, "risk_warning", "high">>}
    ELSE {}

ExpectedAlerts ==
    UNION {ExpectedPaymentAlerts(loans[i]) \cup ExpectedObligationAlerts(loans[i])
              \cup ExpectedRiskAlerts(loans[i]) :
           i \in {k \in 1..Len(loans) : currentUserId # NoUser /\ loans[k].managedBy = currentUserId}}

C18_AlertTable ==
    lastOp.op = "generateAlerts" =>
        /\ {<<alerts[i].id, alerts[i].loanId, alerts[i].type, alerts[i].severity>> :
                i \in 1..Len(alerts)} = ExpectedAlerts
        /\ Len(alerts) = Cardinality(ExpectedAlerts)

C18_Witness ==
    /\ lastOp.op = "generateAlerts"
    /\ \E i \in 1..Len(alerts) : alerts[i].type = "payment_due" /\ alerts[i].severity = "low"
    /\ \E i \in 1..Len(alerts) : alerts[i].type = "obligation_due" /\ alerts[i].severity = "high"
    /\ \E i \in 1..Len(alerts) : alerts[i].type = "risk_warning"
    /\ \E i \in 1..Len(loans) :
          /\ \E j \in 1..Len(loans[i].paymentSchedule) : loans[i].paymentSchedule[j].status = "paid"
          /\ Len(alerts) < Len(loans[i].paymentSchedule) + Len(loans[i].obligations) + 1

\* C20: every loan whose schedule the system generated has as many payments as
\* its term says, also after updateLoan changed the term and after a
\* reconciling import merged a row with another term into a loan whose
\* schedule it preserved
C20_ScheduleLengthIsTerm ==
    \A i \in 1..Len(loans) : Len(loans[i].paymentSchedule) = loans[i].term

\* C21: the reconciling import matches a candidate in priority order: when the
\* candidate's normalized email equals the email or the borrower identifier of
\* an existing loan, the first such loan is the match, also when another loan
\* matches by name; otherwise the first existing loan whose normalized name or
\* borrower identifier equals the candidate's normalized name; otherwise the
\* candidate is created as a new loan.
EmailMatches(candidate, existing) ==
    {i \in 1..Len(existing) :
        /\ Normalize(candidate.borrowerEmail) # Empty
        /\ \/ Normalize(existing[i].borrowerEmail) = Normalize(candidate.borrowerEmail)
           \/ Normalize(existing[i].borrowerIdentifier) = Normalize(candidate.borrowerEmail)}

NameMatches(candidate, existing) ==
    {i \in 1..Len(existing) :
        /\ Normalize(candidate.borrower) # Empty
        /\ \/ Normalize(existing[i].borrower) = Normalize(candidate.borrower)
           \/ Normalize(existing[i].borrowerIdentifier) = Normalize(candidate.borrower)}

Least(S) == CHOOSE i \in S : \A j \in S : i <= j

C21_MatchPriority ==
    \A file \in MatchFiles :
        LET existing == Ledger(localStorage, User1)
            candidates == parseCSV(file, now, 0).loans
        IN \A k \in 1..Len(candidates) :
               LET byEmail == EmailMatches(candidates[k], existing)
                   byName == NameMatches(candidates[k], existing)
                   acc == ProcessImportLoan([loans |-> existing, updated |-> <<>>,
                                             created |-> <<>>, written |-> {}, errors |-> <<>>, failed |-> {}, pos |-> 0],
                                            candidates[k], User1, now)
               IN IF byEmail # {}
                  THEN acc.updated = <<existing[Least(byEmail)].id>> /\ acc.created = <<>>
                                      /\ acc.written = {Least(byEmail)}
                  ELSE IF byName # {}
                  THEN acc.updated = <<existing[Least(byName)].id>> /\ acc.created = <<>>
                                      /\ acc.written = {Least(byName)}
                  ELSE acc.updated = <<>> /\ acc.created = <<candidates[k].id>>
                                      /\ Len(acc.loans) = Len(existing) + 1

\* C21 witness: an import updated the second loan of the ledger, which carries
\* the candidate's email, while the first loan carries the candidate's name
C21_Witness ==
    /\ lastOp.op = "importAndUpdateLoansFromFile"
    /\ lastOp.ok
    /\ lastOp.file = FileAlice
    /\ lastOp.written = {2}
    /\ lastOp.created = <<>>
    /\ Len(Ledger(localStorage, User1)) = 2
    /\ Normalize(Ledger(localStorage, User1)[1].borrower) = "alice"
    /\ Ledger(localStorage, User1)[1].borrowerEmail = "z@x"
    /\ Ledger(localStorage, User1)[2].id = LoanIdB

\* C22: in the reconciling import an error on one candidate is caught and
\* recorded and does not abort the batch: every candidate is counted exactly
\* once (updated + created + errors = candidates), the candidates after a
\* failing one are still processed, and the results of the candidates before
\* it are still written: the ledger written is the one the batch without its
\* failing candidates gives.
RECURSIVE Without(_, _, _)
Without(seq, failed, k) ==
    IF k > Len(seq) THEN <<>>
    ELSE (IF k \in failed THEN <<>> ELSE <<seq[k]>>) \o Without(seq, failed, k + 1)

C22_ErrorsDoNotAbort ==
    [][(lastOp'.op = "importAndUpdateLoansFromFile" /\ lastOp'.ok) =>
          LET candidates == ParseFile(lastOp'.file, now, 0).loans
              good == Without(candidates, lastOp'.failed, 1)
              rest == ProcessAll([loans |-> Ledger(localStorage, lastOp'.user),
                                  updated |-> <<>>, created |-> <<>>, written |-> {},
                                  errors |-> <<>>, failed |-> {}, pos |-> 0],
                                 good, 1, lastOp'.user, now)
          IN /\ Len(lastOp'.updated) + Len(lastOp'.created) + Len(lastOp'.errors)
                    = Len(candidates)
             /\ Len(lastOp'.errors) = Cardinality(lastOp'.failed)
             /\ rest.errors = <<>>
             /\ Ledger(localStorage', lastOp'.user) = rest.loans
             /\ loans' \in {rest.loans, GeneratedLoans(rest.loans, filters, currentUserId, now)}
      ]_vars

\* C22 witness: of three candidates the second threw; the first and the third
\* updated the loan, which holds the third's phone number
C22_Witness ==
    /\ lastOp.op = "importAndUpdateLoansFromFile"
    /\ lastOp.ok
    /\ lastOp.parsed = 3
    /\ lastOp.failed = {2}
    /\ lastOp.errors = <<"Alice">>
    /\ Len(lastOp.updated) = 2
    /\ Ledger(localStorage, User1)[1].borrowerPhone = "p2"

\* C23: the parser produces a candidate for a row only if the borrower is
\* non-empty, amount, interestRate and term are numeric and strictly positive,
\* and a start date could be resolved from the row; a row failing any of these
\* is skipped and the rows after it are still processed.
C23_OnlyValidRows ==
    (lastOp.op \in {"importLoansFromFile", "importAndUpdateLoansFromFile"} /\ lastOp.ok) =>
        LET rows == lastOp.file.rows
            candidates == ParseFile(lastOp.file, now, 0).loans
            valid == {k \in 1..Len(rows) :
                         /\ candidates # <<>>
                         /\ \E j \in 1..Len(candidates) :
                               /\ candidates[j].id[3] = k
                               /\ candidates[j].borrower # Empty
                               /\ candidates[j].amount > 0
                               /\ candidates[j].interestRate > 0
                               /\ candidates[j].term > 0
                               /\ rows[k].startDate # NoDate \/ rows[k].endDate # NoDate}
        IN /\ \A j \in 1..Len(candidates) : candidates[j].id[3] \in valid
           /\ Len(candidates) = Cardinality(valid)

\* C24: in a generated schedule the due date of period k (k = 1..n) is the
\* start date advanced by k calendar months with the day of the month clamped
\* to the last valid day of the target month, never rolled over into the
\* following month; so the due dates ascend strictly, one payment per month.
MonthsOf(date) == 12 * Civil(date).year + Civil(date).month

C24_DueDatesClamped ==
    \A i \in 1..Len(loans) :
        LET l == loans[i]
            start == Civil(l.startDate)
        IN \A k \in 1..Len(l.paymentSchedule) :
               LET due == Civil(l.paymentSchedule[k].dueDate)
               IN /\ MonthsOf(l.paymentSchedule[k].dueDate) = MonthsOf(l.startDate) + k
                  /\ due.day = IF start.day <= DaysInMonth(due.year, due.month)
                                THEN start.day ELSE DaysInMonth(due.year, due.month)
                  /\ k > 1 => l.paymentSchedule[k - 1].dueDate < l.paymentSchedule[k].dueDate

\* C24 holds on UTC and east of it
C24_DueDatesClampedOnUTC == timeZone = "UTC" => C24_DueDatesClamped


---------------------------------------------------------------------------
(* C25: store operations and loans of another manager *)

MutatingOps == {"updatePaymentStatus", "updateObligationStatus", "updateLoan", "addNote",
                "addCommunication", "deleteLoan"}

\* The loans not managed by the current user are the same, in the same order,
\* before and after the step
ForeignLoansUnchanged ==
    Filter(loans, LAMBDA loan : loan.managedBy # currentUserId)
        = Filter(loans', LAMBDA loan : loan.managedBy # currentUserId)

\* C25 as stated: updatePaymentStatus, updateObligationStatus, updateLoan,
\* addNote, addCommunication and deleteLoan, performed while the current user
\* is U, each leave every loan whose managedBy is not U unchanged.
C25_ForeignLoansUnchanged ==
    [][lastOp'.op \in MutatingOps => ForeignLoansUnchanged]_vars

\* The two operations that test managedBy do leave those loans unchanged
C25_GuardedOperations ==
    [][lastOp'.op \in {"updatePaymentStatus", "deleteLoan"} => ForeignLoansUnchanged]_vars


---------------------------------------------------------------------------
(* C26: owner-scoped storage keys *)

\* Distinct owner identifiers have distinct storage keys
KeysDistinct ==
    \A u, v \in OwnerIds : u # v => getUserStorageKey(u) # getUserStorageKey(v)

\* C26 as stated: owner-scoped keys are collision-free, so clearAllData or an
\* import performed for one owner never overwrites or removes the persisted
\* ledger of another owner.
C26_OwnerKeysIsolated ==
    [][(lastOp'.op \in {"clearAllData", "importLoanData", "importLoansFromFile"}) =>
          \A v \in OwnerIds \ {lastOp'.user} :
              localStorage'[getUserStorageKey(v)] = localStorage[getUserStorageKey(v)]
      ]_vars


---------------------------------------------------------------------------
(* C27: interleaved imports and store mutations *)

\* The loan is still there after the step, with every payment status it had
KeptWithStatuses(l, after) ==
    \E j \in 1..Len(after) :
        /\ after[j].id = l.id
        /\ Len(after[j].paymentSchedule) = Len(l.paymentSchedule)
        /\ \A k \in 1..Len(l.paymentSchedule) :
               l.paymentSchedule[k].status = "paid" => after[j].paymentSchedule[k].status = "paid"

\* The records written by an earlier import are in the owner's record after a later one
ImportsAccumulate ==
    [][(lastOp'.op \in {"importLoansFromFile", "importAndUpdateLoansFromFile"} /\ lastOp'.ok) =>
          \A l \in Range(Ledger(localStorage, lastOp'.user)) :
              \E j \in 1..Len(Ledger(localStorage', lastOp'.user)) :
                  Ledger(localStorage', lastOp'.user)[j].id = l.id
      ]_vars

\* C27 as stated: for any interleaving of two suspended imports and store
\* mutations of one owner no update is lost: every loan added and every
\* payment status set before an import's write is still in the ledger after it.
C27_NoLostUpdate ==
    [][(lastOp'.op \in {"importLoansFromFile", "importAndUpdateLoansFromFile"} /\ lastOp'.ok) =>
          \A l \in Range(loans) :
              l.managedBy = lastOp'.user => KeptWithStatuses(l, loans')
      ]_vars


---------------------------------------------------------------------------
(* C28: alerts and the filters of the loan list *)

\* The identifiers generateAlerts gives for the ledger, clock and user of the
\* state when no filter is set
UnfilteredAlertIds == IdsOf(ScanAlerts(getFilteredLoansOf(loans, defaultFilters, currentUserId), now))

\* C28 as stated: the alerts generateAlerts produces do not depend on the
\* filters: whatever setFilters and resetFilters did before, the identifiers
\* produced are those of the ledger, the clock and the current user, and an
\* alert marked read stays read.
C28_AlertsIgnoreFilters ==
    [][lastOp'.op = "generateAlerts" =>
          /\ IdsOf(alerts') = UnfilteredAlertIds
          /\ \A i \in 1..Len(alerts) :
                (alerts[i].read /\ alerts[i].id \in UnfilteredAlertIds) =>
                    \E j \in 1..Len(alerts') : alerts'[j].id = alerts[i].id /\ alerts'[j].read
      ]_vars

\* With the default filters the alerts are those of the whole managed ledger
C28_AlertsUnderDefaultFilters ==
    [][(lastOp'.op = "generateAlerts" /\ filters = defaultFilters) =>
          IdsOf(alerts') = UnfilteredAlertIds]_vars


---------------------------------------------------------------------------
(* C29: alert identifiers *)

\* C29 as stated: within the alert list one generateAlerts call produced the
\* alert identifiers are pairwise distinct (state.alerts is always the list of
\* the last call, with read flags merged in).
C29_AlertIdsDistinct ==
    \A i, j \in 1..Len(alerts) : i # j => alerts[i].id # alerts[j].id

\* While the loans of the store have distinct identifiers, so have the alerts
C29_DistinctWhileLoanIdsDistinct ==
    IdsDistinct(loans) => C29_AlertIdsDistinct


---------------------------------------------------------------------------
(* C30: a refused deletion *)

\* deleteLoan(loanId) is refused: a loan has that identifier and none with it
\* is managed by the current user
DeleteRefused(loanId) ==
    /\ \E l \in Range(loans) : l.id = loanId
    /\ \A l \in Range(loans) : l.id = loanId => l.managedBy # currentUserId

\* C30 as stated: a refused deleteLoan has no effect: loans, selectedLoanId,
\* alerts and filters are the same after the call as before it.
C30_RefusedDeleteNoEffect ==
    [][(lastOp'.op = "deleteLoan" /\ DeleteRefused(lastOp'.loanId)) =>
          /\ loans' = loans
          /\ selectedLoanId' = selectedLoanId
          /\ alerts' = alerts
          /\ filters' = filters
      ]_vars

\* A refused deleteLoan leaves loans, alerts and filters as they were
C30_RefusedDeleteKeepsLoans ==
    [][(lastOp'.op = "deleteLoan" /\ DeleteRefused(lastOp'.loanId)) =>
          /\ loans' = loans
          /\ alerts' = alerts
          /\ filters' = filters
      ]_vars

====
